---- MODULE Spec2Model ----
(***************************************************************************)
(* ClawScope (openclaw-clawscope): the HTTP front door's provider routes   *)
(* (/sessions, /tasks, /activity) with the process-wide session cache, the *)
(* /timeline-data aggregators of frontend.ts and frontend-v2.ts, and the   *)
(* search backend adapter with its /memory/search handlers.                *)
(*                                                                         *)
(* Eight specifications share the variables:                               *)
(*   Spec          provider routes and the session cache                   *)
(*   SpecFair      Spec under the timers of the code                       *)
(*   SpecTimeline  one /timeline-data request, either server variant       *)
(*   SpecSearch    one search, through the adapter or the in-memory stub   *)
(*   SpecSnippet   buildSnippet on a family of texts around 220 characters *)
(*   SpecCalls     one call of an MCP tool, of a log-line loop or of a     *)
(*                 schedule formatter                                      *)
(*   SpecWeb       the settings routes, OPTIONS and the panel routes       *)
(*   SpecPage      the cache of the timeline page script                   *)
(***************************************************************************)
EXTENDS Integers, Sequences, FiniteSets, TLC

VARIABLES
    clock,              \* Date.now(), in milliseconds
    lastSessionsJson,   \* frontend.ts: let lastSessionsJson
    lastSessionsAt,     \* frontend.ts: let lastSessionsAt
    req,                \* the provider-route requests, by slot
    tl,                 \* the /timeline-data request; the cache of the timeline page
    sr,                 \* the search request
    sn,                 \* the buildSnippet call
    call,               \* a call of an MCP tool or of a function of the front door
    web                 \* the settings file and the requests of the other routes

vars == <<clock, lastSessionsJson, lastSessionsAt, req, tl, sr, sn, call, web>>

----------------------------------------------------------------------------
(* Bounds of the model.                                                    *)

NumRequests == 2
MaxTicks == 3
MaxLines == 2
MaxResults == 3
MaxSeed == 3

----------------------------------------------------------------------------
(* JSON values as the handlers see them: a tag and, for a list, its items. *)

J(t, v) == [t |-> t, v |-> v]
JNull == J("null", << >>)
JList(items) == J("list", items)
JError(msg) == J("error", <<msg>>)

\* JavaScript truthiness of a parsed JSON value: null and false are falsy,
\* every array (the empty one included) and every object is truthy.
Truthy(j) == j.t \notin {"null", "false"}

----------------------------------------------------------------------------
(* Time.                                                                   *)

SESSIONS_TTL_MS == 15 * 60 * 1000

\* The clock is observed at a granularity of five minutes.
ClockStepMs == 5 * 60 * 1000
BootClockMs == 100 * ClockStepMs
MaxClockMs == BootClockMs + MaxTicks * ClockStepMs

----------------------------------------------------------------------------
(* Numbers with NaN, as the Date arithmetic of the handlers produces them. *)

Num(n) == [nan |-> FALSE, n |-> n]
NaN == [nan |-> TRUE, n |-> 0]

\* a < b and a >= b in JavaScript: every comparison with NaN is false.
NumLt(a, b) == ~a.nan /\ ~b.nan /\ a.n < b.n
NumGeq(a, b) == ~a.nan /\ ~b.nan /\ a.n >= b.n

----------------------------------------------------------------------------
(* Timestamp strings.  A string of the form                                *)
(*     2026-01-<dd>T<hh>:<mm>:00.000<zone>                                 *)
(* is held as its fields; the fields are zero-padded and of fixed width,   *)
(* so comparing two such strings character by character is comparing      *)
(* (dd, hh, mm) and then the first character of the zone.  "missing" is    *)
(* an absent field (undefined), "garbage" the string "not-a-date".         *)

Iso(d, h, m, z) == [form |-> "iso", d |-> d, h |-> h, m |-> m, z |-> z]
TimeMissing == [form |-> "missing", d |-> 0, h |-> 0, m |-> 0, z |-> ""]
TimeGarbage == [form |-> "garbage", d |-> 0, h |-> 0, m |-> 0, z |-> ""]

MsPerMinute == 60 * 1000

\* Minutes east of UTC of a zone suffix.
ZoneOffsetMinutes(z) ==
    CASE z = "Z" -> 0
      [] z = "+05:00" -> 300
      [] z = "-05:00" -> 0 - 300

\* The character code of the first character of a zone suffix.
ZoneCharCode(z) ==
    CASE z = "Z" -> 90
      [] z = "+05:00" -> 43
      [] z = "-05:00" -> 45

\* new Date(x).getTime(), in milliseconds since 2026-01-01T00:00:00.000Z.
DateParse(t) ==
    IF t.form = "iso"
    THEN Num((((t.d - 1) * 24 + t.h) * 60 + t.m - ZoneOffsetMinutes(t.z)) * MsPerMinute)
    ELSE NaN

\* a >= b on two values as JavaScript compares them: two strings are
\* compared by code units; undefined against a string is compared as
\* numbers, undefined becomes NaN and the comparison is false.
StrGeq(a, b) ==
    CASE a.form = "missing" \/ b.form = "missing" -> FALSE
      [] a.form = "garbage" /\ b.form = "garbage" -> TRUE
      [] a.form = "garbage" -> TRUE       \* "n" (110) against "2" (50)
      [] b.form = "garbage" -> FALSE
      [] OTHER ->
            \/ a.d > b.d
            \/ a.d = b.d /\ a.h > b.h
            \/ a.d = b.d /\ a.h = b.h /\ a.m > b.m
            \/ a.d = b.d /\ a.h = b.h /\ a.m = b.m
                  /\ ZoneCharCode(a.z) >= ZoneCharCode(b.z)

\* new Date(ms).toISOString() for an instant on a whole minute.
ToISOString(ms) ==
    LET mins == ms \div MsPerMinute
    IN  Iso((mins \div (24 * 60)) + 1, (mins \div 60) % 24, mins % 60, "Z")

----------------------------------------------------------------------------
(* Log messages.  A message is its text together with what the handlers'   *)
(* substring and regular-expression tests find in that text.               *)

Message(text, len, toolSp, tool, action, sessState, newState, mem, cron, benign) ==
    [text |-> text, len |-> len, toolSp |-> toolSp, tool |-> tool,
     action |-> action, sessState |-> sessState, newState |-> newState,
     mem |-> mem, cron |-> cron, benign |-> benign]

\* Length of a token a regular expression captured.
TokenLen(tok) ==
    CASE tok = "exec" -> 4
      [] tok = "processing" -> 10
      [] OTHER -> 0

\* A summary is a prefix (the start mark U+25B6 or the end mark U+2713,
\* written "(start) " and "(end) " here, "Session ", or none) followed by the
\* first `keep` characters of a text.
Summary(pre, of, keep) == [pre |-> pre, of |-> of, keep |-> keep]

Min(a, b) == IF a <= b THEN a ELSE b
Max(a, b) == IF a >= b THEN a ELSE b

\* message.slice(0, n)
SliceMessage(msg, n) == Summary("", msg.text, Min(msg.len, n))

----------------------------------------------------------------------------
(* Log lines.  shape: "object" parses to a JSON object, "badjson" starts   *)
(* with "{" and does not parse, "text" does not start with "{", "blank"    *)
(* is empty or white space.  An absent field is "absent".                  *)

LogLine(shape, type, time, subsystem, message, level) ==
    [shape |-> shape, type |-> type, time |-> time, subsystem |-> subsystem,
     message |-> message, level |-> level]

\* An event id: the time string and the discriminator joined by "-", or a
\* plain identifier of the upstream record (time of form "none").
NoTime == [form |-> "none", d |-> 0, h |-> 0, m |-> 0, z |-> ""]
EventId(time, disc) == [t |-> time, d |-> disc]
PlainId(name) == [t |-> NoTime, d |-> name]

Event(id, ts, kind, summary, level) ==
    [id |-> id, ts |-> ts, kind |-> kind, summary |-> summary, level |-> level]

\* The rule chain of the /activity handler on a parsed line: the events it
\* pushes (none or one).
ActivityRules(line) ==
    LET \* parsed.subsystem || '', parsed.message || '', parsed.level || 'debug'
        subsystem == IF line.subsystem = "absent" THEN "" ELSE line.subsystem
        message == line.message
        level == IF line.level = "absent" THEN "debug" ELSE line.level
    IN  IF subsystem = "agent/embedded" /\ message.toolSp
        THEN IF message.tool /= "" /\ message.action /= ""
             THEN << Event(EventId(line.time, message.tool), line.time, "tool",
                           Summary(IF message.action = "start" THEN "(start) " ELSE "(end) ",
                                   message.tool, TokenLen(message.tool)),
                           level) >>
             ELSE << >>
        ELSE IF subsystem = "diagnostic" /\ message.sessState
        THEN IF message.newState /= ""
             THEN << Event(EventId(line.time, "session"), line.time, "session",
                           Summary("Session ", message.newState, TokenLen(message.newState)),
                           level) >>
             ELSE << >>
        ELSE IF subsystem = "cron" \/ message.cron
        THEN << Event(EventId(line.time, "cron"), line.time, "cron",
                      SliceMessage(message, 60), level) >>
        ELSE IF level \in {"warn", "error"} /\ ~message.benign
        THEN << Event(EventId(line.time, "warn"), line.time, "alert",
                      SliceMessage(message, 80), level) >>
        ELSE << >>

\* One iteration of the /activity loop over the lines.
ActivityClassify(line) ==
    IF line.shape /= "object" THEN << >>
    ELSE IF line.type \notin {"absent", "log"} THEN << >>
    ELSE ActivityRules(line)

\* A rule chain without the memory rule: the chain of /activity.
TimelineRulesAsActivity(line) == ActivityRules(line)

\* The rule chain of the /timeline-data handler of frontend.ts.
TimelineRules(line) ==
    LET \* parsed.subsystem || '', parsed.message || '', parsed.level || 'debug'
        subsystem == IF line.subsystem = "absent" THEN "" ELSE line.subsystem
        message == line.message
        level == IF line.level = "absent" THEN "debug" ELSE line.level
    IN  IF subsystem = "agent/embedded" /\ message.toolSp
        THEN IF message.tool /= "" /\ message.action /= ""
             THEN << Event(EventId(line.time, message.tool), line.time, "tool",
                           Summary(IF message.action = "start" THEN "(start) " ELSE "(end) ",
                                   message.tool, TokenLen(message.tool)),
                           level) >>
             ELSE << >>
        ELSE IF subsystem = "diagnostic" /\ message.sessState
        THEN IF message.newState /= ""
             THEN << Event(EventId(line.time, "session"), line.time, "session",
                           Summary("Session ", message.newState, TokenLen(message.newState)),
                           level) >>
             ELSE << >>
        ELSE IF subsystem = "memory" \/ message.mem
        THEN << Event(EventId(line.time, "memory"), line.time, "memory",
                      SliceMessage(message, 80), level) >>
        ELSE IF subsystem = "cron" \/ message.cron
        THEN << Event(EventId(line.time, "cron"), line.time, "cron",
                      SliceMessage(message, 60), level) >>
        ELSE IF level \in {"warn", "error"} /\ ~message.benign
        THEN << Event(EventId(line.time, "alert"), line.time, "alert",
                      SliceMessage(message, 80), level) >>
        ELSE << >>

\* A loop that classifies the text of a line that did not parse.
TimelineClassifyUnparsed(line, sinceTs) ==
    IF line.shape = "object" /\ line.type /= "log" THEN << >>
    ELSE IF NumLt(DateParse(line.time), sinceTs) THEN << >>
    ELSE TimelineRules(line)

\* One iteration of the /timeline-data loop of frontend.ts: lines that are
\* not objects of type "log" are skipped, and so is a line whose time
\* parses to an instant before `since`.
TimelineClassify(line, sinceTs) ==
    IF line.shape /= "object" THEN << >>
    ELSE IF line.type /= "log" THEN << >>
    ELSE IF NumLt(DateParse(line.time), sinceTs) THEN << >>
    ELSE TimelineRules(line)

RECURSIVE Flatten(_)
\* The events pushed by a loop, in order; pushed[i] is what the i-th
\* iteration pushes.
Flatten(pushed) ==
    IF pushed = << >> THEN << >>
    ELSE Head(pushed) \o Flatten(Tail(pushed))

----------------------------------------------------------------------------
(* Scheduled tasks: the job descriptors and the two mappings of /tasks.    *)

\* A printed string: a pattern with at most one number and one text in it.
Str(pat, n, arg) == [pat |-> pat, n |-> n, arg |-> arg]

\* A schedule descriptor; kind "absent" is a job without schedule, an empty
\* expr or at and an everyMs of 0 stand for a missing field.
Schedule(kind, expr, everyMs, at) ==
    [kind |-> kind, expr |-> expr, everyMs |-> everyMs, at |-> at]

\* Math.round(ms / 60000) for ms >= 0
RoundMinutes(ms) == (ms + 30000) \div 60000

formatSchedule(schedule) ==
    IF schedule.kind = "absent" THEN Str("unknown", 0, "")
    ELSE IF schedule.kind = "cron"
    THEN IF schedule.expr /= "" THEN Str("%s", 0, schedule.expr) ELSE Str("cron", 0, "")
    ELSE IF schedule.kind = "every"
    THEN LET mins == RoundMinutes(schedule.everyMs)
         IN  IF mins /= 0 THEN Str("every %dmin", mins, "") ELSE Str("every", 0, "")
    ELSE IF schedule.kind = "at"
    THEN IF schedule.at /= "" THEN Str("once at %s", 0, schedule.at) ELSE Str("once", 0, "")
    ELSE Str("unknown", 0, "")

\* The schedule expression of the CLI fallback of /tasks.
CliSchedule(schedule) ==
    IF schedule.kind = "cron"
    THEN IF schedule.expr /= "" THEN Str("%s", 0, schedule.expr) ELSE Str("undefined", 0, "")
    ELSE IF schedule.kind = "every"
    THEN Str("every %dmin", RoundMinutes(schedule.everyMs), "")
    ELSE IF schedule.kind = "at"
    THEN Str("once at %s", 0, IF schedule.at /= "" THEN schedule.at ELSE "undefined")
    ELSE Str("unknown", 0, "")

Job(id, schedule) == [id |-> id, schedule |-> schedule]

\* jobs.map(...) of fetchTasksFromPlugin
PluginTaskItem(job) ==
    [id |-> job.id, schedule |-> formatSchedule(job.schedule),
     fields |-> {"id", "name", "enabled", "schedule", "nextRun", "agentId", "kind",
                 "description", "payloadSummary"}]
\* jobs.map(...) of the CLI fallback
CliTaskItem(job) ==
    [id |-> job.id, schedule |-> CliSchedule(job.schedule),
     fields |-> {"id", "name", "enabled", "schedule", "nextRun", "agentId"}]

----------------------------------------------------------------------------
(* What the companion service and the CLI can answer.                      *)

\* A fetch, an exec or a JSON.parse that threw.
Failed == J("failed", << >>)

\* The standard output of `openclaw ... --json`: the JSON text, after
\* leading text without brackets when `noise` holds; "garbage" is text that
\* is not JSON.
Stdout(noise, payload) == [noise |-> noise, payload |-> payload]

\* cleanStdout.search(/[\[{]/), slice, JSON.parse: the value, or Failed when
\* JSON.parse throws.
ParseCliJson(stdout) ==
    IF stdout.payload.t = "garbage" THEN Failed
    ELSE IF stdout.payload.t \in {"null", "false"}
    THEN IF stdout.noise THEN Failed ELSE stdout.payload
    ELSE stdout.payload

\* Log lines as `openclaw logs --json` prints them and as the companion
\* service returns them.
SampleLines ==
    LET t0 == Iso(1, 8, 0, "Z")
        t1 == Iso(2, 10, 0, "Z")
        t2 == Iso(2, 11, 0, "Z")
        toolStart == Message("embedded run tool start: runId=r1 tool=exec", 43,
                             TRUE, "exec", "start", FALSE, "", FALSE, FALSE, FALSE)
        toolEnd == Message("embedded run tool end: runId=r1 tool=exec", 41,
                           TRUE, "exec", "end", FALSE, "", FALSE, FALSE, FALSE)
        cronX == Message("cron job X ran", 14, FALSE, "", "", FALSE, "", FALSE, TRUE, FALSE)
        cronY == Message("cron job Y ran", 14, FALSE, "", "", FALSE, "", FALSE, TRUE, FALSE)
        memoryCron == Message("memory cron sync finished", 25,
                              FALSE, "", "", FALSE, "", TRUE, TRUE, FALSE)
        disk == Message("disk almost full", 16, FALSE, "", "", FALSE, "", FALSE, FALSE, FALSE)
        long == Message("provider request failed after 3 attempts: upstream returned status 503 for POST /v1/responses", 93,
                        FALSE, "", "", FALSE, "", FALSE, FALSE, FALSE)
        empty == Message("", 0, FALSE, "", "", FALSE, "", FALSE, FALSE, FALSE)
    IN  [cron |-> LogLine("object", "log", t1, "cron", cronX, "info"),
         cronSameTime |-> LogLine("object", "log", t1, "cron", cronY, "info"),
         tool |-> LogLine("object", "absent", t2, "agent/embedded", toolStart, "absent"),
         warn |-> LogLine("object", "log", t2, "gateway", disk, "warn"),
         quiet |-> LogLine("object", "log", t2, "gateway", disk, "info"),
         text |-> LogLine("text", "absent", TimeMissing, "absent", empty, "absent"),
         noTime |-> LogLine("object", "log", TimeMissing, "cron", cronX, "info"),
         badTime |-> LogLine("object", "log", TimeGarbage, "memory", memoryCron, "info"),
         offset |-> LogLine("object", "log", Iso(2, 12, 0, "+05:00"), "agent/embedded",
                            toolEnd, "info"),
         early |-> LogLine("object", "log", t0, "gateway", long, "error"),
         metric |-> LogLine("object", "metric", t2, "cron", cronX, "info"),
         broken |-> LogLine("badjson", "absent", TimeMissing, "absent", empty, "absent")]

\* What /sessions can get: resp.json() of /clawscope/sessions, and the
\* output of `openclaw sessions --json`.
SessionAnswers ==
    [plugin |-> {JNull, JList(<< >>), JList(<<"s1">>)},
     cli |-> {Stdout(TRUE, JList(<<"s2">>)), Stdout(FALSE, JNull), Stdout(TRUE, JNull),
              Stdout(FALSE, J("garbage", << >>))}]

\* What /tasks can get: resp.json() of /clawscope/cron, and the output of
\* `openclaw cron list --json`.
TaskAnswers ==
    LET jobCron == Job("job-cron", Schedule("cron", "*/30 * * * *", 0, ""))
        jobEvery == Job("job-every", Schedule("every", "", 600000, ""))
        jobAt == Job("job-at", Schedule("at", "", 0, ""))
    IN  [plugin |-> {JNull, J("object", << >>), JList(<<jobCron>>),
                     J("jobs", <<jobEvery, jobAt>>)},
         cli |-> {Stdout(TRUE, J("jobs", <<jobCron, jobAt>>)),
                  Stdout(FALSE, JList(<<jobEvery>>)),
                  Stdout(FALSE, JNull), Stdout(FALSE, J("garbage", << >>))}]

\* What /activity can get: resp.json() of /clawscope/activity, and the lines
\* on the standard output of `openclaw logs --json`.
ActivityAnswers ==
    LET line == SampleLines
    IN  [plugin |-> {JNull, J("object", << >>), JList(<< >>), JList(<<line.cron>>),
                     J("lines", <<line.tool, line.warn>>), J("logs", <<line.quiet>>),
                     J("lineobjects", <<line.cron>>)},
         cli |-> {<< >>, <<line.text, line.cron>>, <<line.warn>>}]

\* Array.isArray(data) ? data : (data.jobs || []) of fetchTasksFromPlugin;
\* reading data.jobs of null throws, which PluginJobsThrows tells.
PluginJobsThrows(data) == data.t = "null"
PluginJobs(data) ==
    CASE data.t = "list" -> data.v
      [] data.t = "jobs" -> data.v
      [] OTHER -> << >>

\* data.jobs || [] of the CLI fallback; it throws on null as well.
CliJobsThrows(data) == data.t = "null"
CliJobs(data) ==
    CASE data.t = "jobs" -> data.v
      [] OTHER -> << >>

\* The lines /activity takes from the companion answer (null after a failed
\* fetch).
ActivityLines(data) ==
    CASE data.t = "list" -> data.v
      [] data.t = "lines" -> data.v
      [] data.t = "logs" -> data.v
      [] data.t = "lineobjects" -> data.v
      [] OTHER -> << >>

\* line.trim() throws on a line that is not a string: data.lines is taken as
\* it is, while the entries of an array or of data.logs are stringified.
ActivityLoopThrows(data) == data.t = "lineobjects" /\ data.v /= << >>

\* events.slice(-30).reverse()
LastReversed(events, n) ==
    LET len == Len(events)
        kept == Min(len, n)
    IN  [i \in 1..kept |-> events[len - i + 1]]

ACTIVITY_TAIL == 30

----------------------------------------------------------------------------
(* The provider routes of frontend.ts.  A request is handled in up to      *)
(* three steps, cut at the awaits of the handler: arrival (up to the       *)
(* companion fetch), the return of the companion fetch (up to the CLI      *)
(* exec), and the return of the CLI.                                       *)

Slots == 1..NumRequests

IdleRequest ==
    [route |-> "none", pc |-> "idle", now |-> 0, calls |-> << >>,
     plugin |-> "none", pluginLines |-> 0, cli |-> "none",
     status |-> 0, body |-> J("none", << >>), hit |-> FALSE, fetched |-> FALSE,
     after |-> {}]

\* res.statusCode = status; res.end(JSON.stringify(body))
Respond(r, status, body) ==
    [r EXCEPT !.pc = "done", !.status = status, !.body = body]

\* The slots are taken in order.
CanArrive(r) ==
    /\ req[r].pc = "idle"
    /\ IF r = 1 THEN TRUE ELSE req[r - 1].pc /= "idle"

\* The /sessions requests already answered from a successful fetch.
AnsweredFromFetch ==
    {q \in Slots : req[q].route = "/sessions" /\ req[q].pc = "done" /\ req[q].fetched}

\* if (lastSessionsJson && now - lastSessionsAt < SESSIONS_TTL_MS)
CacheFresh(json, at, now) == Truthy(json) /\ now - at < SESSIONS_TTL_MS

\* GET /sessions, up to the await of fetchSessionsFromPlugin().
SessionsArrive(r) ==
    /\ CanArrive(r)
    /\ LET arrived == [req[r] EXCEPT !.route = "/sessions", !.now = clock,
                                     !.after = AnsweredFromFetch]
       IN  IF CacheFresh(lastSessionsJson, lastSessionsAt, clock)
           THEN req' = [req EXCEPT ![r] =
                            Respond([arrived EXCEPT !.hit = TRUE], 200, lastSessionsJson)]
           ELSE req' = [req EXCEPT ![r] =
                            [arrived EXCEPT !.pc = "plugin", !.calls = <<"plugin">>]]
    /\ UNCHANGED <<clock, lastSessionsJson, lastSessionsAt, tl, sr, sn, call, web>>

\* A handler that stamps the slot with the time the fetch returned.
SessionsPluginOkStampedLate(r) ==
    /\ req[r].route = "/sessions" /\ req[r].pc = "plugin"
    /\ \E data \in SessionAnswers.plugin :
          /\ lastSessionsJson' = data
          /\ lastSessionsAt' = clock
          /\ req' = [req EXCEPT ![r] =
                        Respond([@ EXCEPT !.plugin = "ok", !.fetched = TRUE], 200, data)]
    /\ UNCHANGED <<clock, tl, sr, sn, call, web>>

\* fetchSessionsFromPlugin() resolves with data: the slot is written with
\* the `now` of this request.
SessionsPluginOk(r) ==
    /\ req[r].route = "/sessions" /\ req[r].pc = "plugin"
    /\ \E data \in SessionAnswers.plugin :
          /\ lastSessionsJson' = data
          /\ lastSessionsAt' = req[r].now
          /\ req' = [req EXCEPT ![r] =
                        Respond([@ EXCEPT !.plugin = "ok", !.fetched = TRUE], 200, data)]
    /\ UNCHANGED <<clock, tl, sr, sn, call, web>>

\* fetchSessionsFromPlugin() rejects (network error, abort after 4 s, status
\* not ok, body not JSON): exec('openclaw sessions --json') is started.
SessionsPluginFail(r) ==
    /\ req[r].route = "/sessions" /\ req[r].pc = "plugin"
    /\ req' = [req EXCEPT ![r] =
                  [@ EXCEPT !.plugin = "fail", !.pc = "cli", !.calls = Append(@, "cli")]]
    /\ UNCHANGED <<clock, lastSessionsJson, lastSessionsAt, tl, sr, sn, call, web>>

\* A handler that stores the empty list it answers with when the CLI failed.
SessionsCliReturnStoresFailure(r) ==
    /\ req[r].route = "/sessions" /\ req[r].pc = "cli"
    /\ \E stdout \in SessionAnswers.cli :
          LET data == ParseCliJson(stdout)
              stored == IF data = Failed THEN JList(<< >>) ELSE data
          IN  /\ lastSessionsJson' = stored
              /\ lastSessionsAt' = req[r].now
              /\ req' = [req EXCEPT ![r] =
                            Respond([@ EXCEPT !.cli = IF data = Failed THEN "fail" ELSE "ok",
                                              !.fetched = data /= Failed], 200, stored)]
    /\ UNCHANGED <<clock, tl, sr, sn, call, web>>

\* The CLI exits: either exec rejects, or its output is parsed.
SessionsCliReturn(r) ==
    /\ req[r].route = "/sessions" /\ req[r].pc = "cli"
    /\ \/ \E stdout \in SessionAnswers.cli :
             LET data == ParseCliJson(stdout)
             IN  IF data = Failed
                 THEN /\ req' = [req EXCEPT ![r] =
                                    Respond([@ EXCEPT !.cli = "fail"], 200, JList(<< >>))]
                      /\ UNCHANGED <<lastSessionsJson, lastSessionsAt, call, web>>
                 ELSE /\ lastSessionsJson' = data
                      /\ lastSessionsAt' = req[r].now
                      /\ req' = [req EXCEPT ![r] =
                                    Respond([@ EXCEPT !.cli = "ok", !.fetched = TRUE], 200, data)]
       \/ /\ req' = [req EXCEPT ![r] =
                        Respond([@ EXCEPT !.cli = "fail"], 200, JList(<< >>))]
          /\ UNCHANGED <<lastSessionsJson, lastSessionsAt, call, web>>
    /\ UNCHANGED <<clock, tl, sr, sn, call, web>>

\* GET /tasks, up to the await of fetchTasksFromPlugin().
TasksArrive(r) ==
    /\ CanArrive(r)
    /\ req' = [req EXCEPT ![r] =
                  [@ EXCEPT !.route = "/tasks", !.now = clock, !.pc = "plugin",
                            !.calls = <<"plugin">>]]
    /\ UNCHANGED <<clock, lastSessionsJson, lastSessionsAt, tl, sr, sn, call, web>>

\* fetchTasksFromPlugin() returns: with the mapped jobs, or by throwing,
\* which starts exec('openclaw cron list --json').
TasksPluginReturn(r) ==
    /\ req[r].route = "/tasks" /\ req[r].pc = "plugin"
    /\ \/ \E data \in TaskAnswers.plugin :
             LET jobs == PluginJobs(data)
             IN  IF PluginJobsThrows(data)
                 THEN req' = [req EXCEPT ![r] =
                                 [@ EXCEPT !.plugin = "fail", !.pc = "cli",
                                           !.calls = Append(@, "cli")]]
                 ELSE req' = [req EXCEPT ![r] =
                                 Respond([@ EXCEPT !.plugin = "ok", !.fetched = TRUE], 200,
                                         JList([i \in 1..Len(jobs) |-> PluginTaskItem(jobs[i])]))]
       \/ req' = [req EXCEPT ![r] =
                     [@ EXCEPT !.plugin = "fail", !.pc = "cli", !.calls = Append(@, "cli")]]
    /\ UNCHANGED <<clock, lastSessionsJson, lastSessionsAt, tl, sr, sn, call, web>>

\* The CLI exits: its jobs are mapped, or the inner catch answers 500.
TasksCliReturn(r) ==
    /\ req[r].route = "/tasks" /\ req[r].pc = "cli"
    /\ \/ \E stdout \in TaskAnswers.cli :
             LET data == ParseCliJson(stdout)
                 jobs == CliJobs(data)
             IN  IF data = Failed \/ CliJobsThrows(data)
                 THEN req' = [req EXCEPT ![r] =
                                 Respond([@ EXCEPT !.cli = "fail"], 500, JError("tasks failed"))]
                 ELSE req' = [req EXCEPT ![r] =
                                 Respond([@ EXCEPT !.cli = "ok", !.fetched = TRUE], 200,
                                         JList([i \in 1..Len(jobs) |-> CliTaskItem(jobs[i])]))]
       \/ req' = [req EXCEPT ![r] =
                     Respond([@ EXCEPT !.cli = "fail"], 500, JError("tasks failed"))]
    /\ UNCHANGED <<clock, lastSessionsJson, lastSessionsAt, tl, sr, sn, call, web>>

\* GET /activity, up to the await of fetchActivityFromPlugin(200).
ActivityArrive(r) ==
    /\ CanArrive(r)
    /\ req' = [req EXCEPT ![r] =
                  [@ EXCEPT !.route = "/activity", !.now = clock, !.pc = "plugin",
                            !.calls = <<"plugin">>]]
    /\ UNCHANGED <<clock, lastSessionsJson, lastSessionsAt, tl, sr, sn, call, web>>

\* A fallback that runs whatever the companion gave.
ActivityNeedsCliAlways(lines) == Len(lines) >= 0

\* if (!lines.length): the CLI is asked when the companion gave no line.
ActivityNeedsCli(lines) == Len(lines) = 0

\* The classified events of /activity and its answer.
ActivityAnswer(lines) ==
    JList(LastReversed(Flatten([i \in 1..Len(lines) |-> ActivityClassify(lines[i])]),
                       ACTIVITY_TAIL))

\* fetchActivityFromPlugin(200) returns (data) or throws (data = null): the
\* lines are taken from data; without lines the CLI is started, with lines
\* they are classified and the answer is sent.
ActivityPluginReturn(r) ==
    /\ req[r].route = "/activity" /\ req[r].pc = "plugin"
    /\ \E ok \in BOOLEAN, value \in ActivityAnswers.plugin :
          LET data == IF ok THEN value ELSE JNull
              lines == ActivityLines(data)
              seen == [req[r] EXCEPT !.plugin = IF ok THEN "ok" ELSE "fail",
                                     !.pluginLines = Len(lines)]
          IN  /\ ~ok => value = JNull
              /\ IF ActivityNeedsCli(lines)
                 THEN req' = [req EXCEPT ![r] =
                                 [seen EXCEPT !.pc = "cli", !.calls = Append(@, "cli")]]
                 ELSE IF ActivityLoopThrows(data)
                 THEN req' = [req EXCEPT ![r] =
                                 Respond(seen, 500, JError("line.trim is not a function"))]
                 ELSE req' = [req EXCEPT ![r] =
                                 Respond([seen EXCEPT !.fetched = TRUE], 200,
                                         ActivityAnswer(lines))]
    /\ UNCHANGED <<clock, lastSessionsJson, lastSessionsAt, tl, sr, sn, call, web>>

\* exec('openclaw logs --json --limit 100') returns: resolved, or rejected
\* (exit code, timeout of 12 s) with the output so far in e.stdout.
ActivityCliReturn(r) ==
    /\ req[r].route = "/activity" /\ req[r].pc = "cli"
    /\ \E ok \in BOOLEAN, lines \in ActivityAnswers.cli :
          req' = [req EXCEPT ![r] =
                     Respond([@ EXCEPT !.cli = IF ok THEN "ok"
                                              ELSE IF lines = << >> THEN "fail"
                                              ELSE "partial",
                                       !.fetched = ok], 200, ActivityAnswer(lines))]
    /\ UNCHANGED <<clock, lastSessionsJson, lastSessionsAt, tl, sr, sn, call, web>>

\* Time passes.
Tick ==
    /\ clock < MaxClockMs
    /\ clock' = clock + ClockStepMs
    /\ UNCHANGED <<lastSessionsJson, lastSessionsAt, req, tl, sr, sn, call, web>>

\* The value of tl, sr, sn, call and web in a specification that does not use
\* them.
Unused == [pc |-> "unused"]

Init ==
    /\ clock = BootClockMs
    /\ lastSessionsJson = JNull
    /\ lastSessionsAt = 0
    /\ req = [r \in Slots |-> IdleRequest]
    /\ tl = Unused
    /\ sr = Unused
    /\ sn = Unused
    /\ call = Unused
    /\ web = Unused

Next ==
    \/ \E r \in Slots : SessionsArrive(r)
    \/ \E r \in Slots : SessionsPluginOk(r)
    \/ \E r \in Slots : SessionsPluginFail(r)
    \/ \E r \in Slots : SessionsCliReturn(r)
    \/ \E r \in Slots : TasksArrive(r)
    \/ \E r \in Slots : TasksPluginReturn(r)
    \/ \E r \in Slots : TasksCliReturn(r)
    \/ \E r \in Slots : ActivityArrive(r)
    \/ \E r \in Slots : ActivityPluginReturn(r)
    \/ \E r \in Slots : ActivityCliReturn(r)
    \/ Tick

Spec == Init /\ [][Next]_vars

----------------------------------------------------------------------------
(* Claims on the provider routes (specification Spec).                     *)

\* C1, as stated: a /sessions request that arrives after another /sessions
\* request was answered from a successful fetch, and less than 15 minutes
\* after that request, is answered from the cache and calls neither the
\* companion service nor the CLI, whatever value the fetch returned.
C1_CacheHitWithinTtl ==
    \A r2 \in Slots : \A r1 \in req[r2].after :
        (req[r2].route = "/sessions" /\ req[r2].now - req[r1].now < SESSIONS_TTL_MS)
            => (req[r2].hit /\ req[r2].calls = << >>)

\* C9, as stated: on /sessions, /tasks and /activity a request for which
\* both the companion service and the CLI failed is answered 200 with an
\* empty list.
C9_BothFailEmptyList ==
    \A r \in Slots :
        (req[r].pc = "done" /\ req[r].plugin = "fail" /\ req[r].cli = "fail")
            => (req[r].status = 200 /\ req[r].body = JList(<< >>))

\* C10, as stated: every request tries the companion service first and
\* exactly once, calls the CLI at most once, and calls it only if the
\* companion fetch did not succeed.
C10_FallbackOnlyOnFailure ==
    \A r \in Slots :
        req[r].pc /= "idle" =>
            /\ req[r].calls \in {<<"plugin">>, <<"plugin", "cli">>}
            /\ Len(req[r].calls) = 2 => req[r].plugin = "fail"

\* C10, amended: a request that is not answered from the session cache
\* tries the companion service first and exactly once and calls the CLI at
\* most once, only if the companion fetch did not succeed or, on /activity,
\* gave no log line; a /sessions request answered from the cache calls
\* neither source.
C10_FallbackOrder ==
    \A r \in Slots :
        req[r].pc /= "idle" =>
            IF req[r].hit
            THEN req[r].route = "/sessions" /\ req[r].calls = << >>
            ELSE /\ req[r].calls \in {<<"plugin">>, <<"plugin", "cli">>}
                 /\ Len(req[r].calls) = 2 =>
                        \/ req[r].plugin = "fail"
                        \/ req[r].route = "/activity" /\ req[r].pluginLines = 0

\* An /activity request whose companion fetch succeeded without lines, and
\* which went on to the CLI and was answered.
C10_Witness ==
    \E r \in Slots :
        /\ req[r].route = "/activity" /\ req[r].pc = "done"
        /\ req[r].plugin = "ok" /\ req[r].calls = <<"plugin", "cli">>

----------------------------------------------------------------------------
(* /timeline-data.  Shared pieces of the two server variants.              *)

\* The instant of the request, Date.now(): 2026-01-03T00:00:00.000Z.
TimelineNowMs == 2 * 24 * 60 * MsPerMinute
SEVEN_DAYS_MS == 7 * 24 * 60 * 60 * 1000

\* url.searchParams.get('since') || new Date(Date.now() - 7 days).toISOString();
\* an absent or empty parameter is TimeMissing.
EffectiveSince(param) ==
    IF param.form = "missing" THEN ToISOString(TimelineNowMs - SEVEN_DAYS_MS) ELSE param

\* parseInt of the limit parameter, with the default of the variant.
ParseInt(text, default) ==
    CASE text = "absent" -> Num(default)
      [] text = "2" -> Num(2)
      [] text = "1" -> Num(1)
      [] text = "0" -> Num(0)
      [] text = "-1" -> Num(0 - 1)
      [] OTHER -> NaN

\* array.slice(0, limit): NaN counts as 0, a negative limit counts from the
\* end.
SliceTo(s, limit) ==
    LET len == Len(s)
        end == IF limit.nan THEN 0
               ELSE IF limit.n < 0 THEN Max(len + limit.n, 0)
               ELSE Min(limit.n, len)
    IN  SubSeq(s, 1, end)

RECURSIVE StableNewestFirst(_)
\* The stable sort by (a, b) => getTime(b.ts) - getTime(a.ts) when every ts
\* parses: the last event is put into the sorted rest, after the entries
\* that are not older than it.
StableNewestFirst(events) ==
    IF events = << >> THEN << >>
    ELSE LET e == events[Len(events)]
             sorted == StableNewestFirst(SubSeq(events, 1, Len(events) - 1))
             ahead == Cardinality({i \in 1..Len(sorted) :
                                      DateParse(sorted[i].ts).n >= DateParse(e.ts).n})
         IN  SubSeq(sorted, 1, ahead) \o <<e>> \o SubSeq(sorted, ahead + 1, Len(sorted))

Orderings(s) ==
    LET n == Len(s)
        bijections == {f \in [1..n -> 1..n] : \A i, j \in 1..n : f[i] = f[j] => i = j}
    IN  {[i \in 1..n |-> s[f[i]]] : f \in bijections}

\* events.sort((a, b) => new Date(b.ts).getTime() - new Date(a.ts).getTime()):
\* the orders the sort can leave.  With a ts that does not parse the
\* comparator gives NaN, it is not a consistent comparator and the order is
\* implementation-defined.
SortNewestFirst(events) ==
    IF \E i \in 1..Len(events) : DateParse(events[i].ts).nan
    THEN Orderings(events)
    ELSE {StableNewestFirst(events)}

----------------------------------------------------------------------------
(* /timeline-data of frontend.ts.                                          *)

SeqsUpTo(S, n) == UNION {[1..k -> S] : k \in 0..n}

\* A field holding an instant in milliseconds: present ("ms"), missing
\* ("absent"), or a value new Date() cannot read ("invalid").
AtMs(ms) == [kind |-> "ms", ms |-> ms]
AbsentMs == [kind |-> "absent", ms |-> 0]
InvalidMs == [kind |-> "invalid", ms |-> 0]

\* A record of sessions.json; an empty sessionId, key or displayName stands
\* for a missing field.
SessionRecord(sessionId, key, updatedAt, displayName) ==
    [sessionId |-> sessionId, key |-> key, updatedAt |-> updatedAt,
     displayName |-> displayName]

\* A job of jobs.json; lastRunAtMs is absent for a job that never ran.
CronRecord(id, name, lastRunAtMs) == [id |-> id, name |-> name, lastRunAtMs |-> lastRunAtMs]

\* The instant of day d of January 2026 at h:m UTC, in milliseconds.
MsOf(d, h, m) == (((d - 1) * 24 + h) * 60 + m) * MsPerMinute

\* The requests and the surroundings of /timeline-data: the since and limit
\* parameters, the lines `openclaw logs --json` prints, the records of
\* sessions.json and jobs.json, and the values Math.random() returns.
TimelineInputs ==
    LET line == SampleLines
        sessionMain == SessionRecord("s1", "k1", AtMs(MsOf(2, 10, 0)), "Main session")
        sessionMainAgain == SessionRecord("s1", "k1", AtMs(MsOf(2, 11, 0)), "Second window")
        sessionKeyOnly == SessionRecord("", "k2", AtMs(MsOf(1, 8, 0)), "")
        sessionBare == SessionRecord("", "", AbsentMs, "")
        sessionInvalid == SessionRecord("s9", "k9", InvalidMs, "")
        cronRan == CronRecord("job-cron", "Nightly sync", AtMs(MsOf(2, 10, 0)))
        cronNever == CronRecord("job-new", "", AbsentMs)
        cronNamedLikeEvent == CronRecord("e1", "", AtMs(MsOf(2, 10, 20)))
    IN  [since |-> {TimeMissing, Iso(2, 10, 0, "Z"), Iso(2, 12, 0, "+05:00"),
                    Iso(2, 9, 0, "-05:00"), TimeGarbage},
         limit |-> {"absent", "1", "-1", "abc"},
         lines |-> {line.cron, line.cronSameTime, line.noTime, line.badTime, line.offset,
                    line.early, line.warn, line.metric, line.broken},
         sessions |-> {<< >>, <<sessionMain>>, <<sessionMain, sessionMainAgain>>,
                       <<sessionKeyOnly, sessionBare>>, <<sessionBare, sessionBare>>,
                       <<sessionInvalid>>},
         tasks |-> {<< >>, <<cronRan, cronNever>>, <<cronNamedLikeEvent>>},
         random |-> {<<"0.271", "0.828">>, <<"0.314", "0.159">>}]

TIMELINE_DEFAULT_LIMIT == 50
TIMELINE_V2_DEFAULT_LIMIT == 100

\* GET /timeline-data of frontend.ts, up to the await of
\* exec('openclaw logs --json --limit ' + limit).
TimelineArrive ==
    /\ tl.pc = "idle"
    /\ \E since \in TimelineInputs.since, limit \in TimelineInputs.limit :
          tl' = [tl EXCEPT !.pc = "cli", !.variant = "frontend",
                           !.since = EffectiveSince(since),
                           !.limit = ParseInt(limit, TIMELINE_DEFAULT_LIMIT)]
    /\ UNCHANGED <<clock, lastSessionsJson, lastSessionsAt, req, sr, sn, call, web>>

\* The CLI returns (resolved, or rejected with e.stdout): the lines are
\* classified, the events sorted and sent.
TimelineCliReturn ==
    /\ tl.pc = "cli"
    /\ \E lines \in SeqsUpTo(TimelineInputs.lines, MaxLines) :
          LET sinceTs == DateParse(tl.since)
              events == Flatten([i \in 1..Len(lines) |->
                                    TimelineClassify(lines[i], sinceTs)])
          IN  \E sorted \in SortNewestFirst(events) :
                 tl' = [tl EXCEPT !.pc = "done", !.merged = events,
                                  !.refetched = [i \in 1..Len(events) |-> events[i].id],
                                  !.status = 200, !.body = sorted]
    /\ UNCHANGED <<clock, lastSessionsJson, lastSessionsAt, req, sr, sn, call, web>>

----------------------------------------------------------------------------
(* /timeline-data of frontend-v2.ts: sessions.json, jobs.json and the      *)
(* in-memory activity backend.                                             *)

\* Length of the names used as summaries.
NameLen(name) ==
    CASE name = "Main session" -> 12
      [] name = "Second window" -> 13
      [] name = "k2" -> 2
      [] name = "Session activity" -> 16
      [] name = "Nightly sync" -> 12
      [] name = "Scheduled task" -> 14
      [] name = "Tool memory_recall used (offline sqlite)" -> 40
      [] name = "Session main started (WhatsApp)" -> 31
      [] name = "Heartbeat check executed (Moltbook + comms)" -> 43
      [] OTHER -> 0

WholeText(name) == Summary("", name, NameLen(name))

\* The event pushed for a session; `random` is the value Math.random()
\* returns for it.  Failed when toISOString() throws a RangeError.
SessionEventThrows(s) == s.updatedAt.kind = "invalid"
SessionEvent(s, random) ==
    Event(PlainId(IF s.sessionId /= "" THEN s.sessionId
                  ELSE IF s.key /= "" THEN s.key ELSE random),
          IF s.updatedAt.kind = "absent" THEN ToISOString(TimelineNowMs)
          ELSE ToISOString(s.updatedAt.ms),
          "session",
          WholeText(IF s.displayName /= "" THEN s.displayName
                    ELSE IF s.key /= "" THEN s.key ELSE "Session activity"),
          "absent")

\* The events pushed for the jobs: one for each job that ran.
CronEvent(t) ==
    IF t.lastRunAtMs.kind = "absent" THEN << >>
    ELSE << Event(PlainId(t.id), ToISOString(t.lastRunAtMs.ms), "cron",
                  WholeText(IF t.name /= "" THEN t.name ELSE "Scheduled task"),
                  "absent") >>

\* InMemoryActivityBackend: the default seed, made when the server starts
\* (2026-01-02T10:30:00.000Z here), newest first.
BackendBootMs == (24 * 60 + 10 * 60 + 30) * MsPerMinute
ActivityEvent(id, ts, kind, summary) == [id |-> id, ts |-> ts, kind |-> kind, summary |-> summary]
DefaultSeed ==
    << ActivityEvent("e3", ToISOString(BackendBootMs - 1000 * 60 * 1), "tool",
                     "Tool memory_recall used (offline sqlite)"),
       ActivityEvent("e2", ToISOString(BackendBootMs - 1000 * 60 * 3), "session_start",
                     "Session main started (WhatsApp)"),
       ActivityEvent("e1", ToISOString(BackendBootMs - 1000 * 60 * 10), "cron",
                     "Heartbeat check executed (Moltbook + comms)") >>

\* listActivity({since, limit}): the events with ts >= since as strings, cut
\* to the limit.
listActivity(since, limit) ==
    LET Kept(e) == StrGeq(e.ts, since)
    IN  SliceTo(SelectSeq(DefaultSeed, Kept), Num(limit))

\* The mapping of activity kinds to timeline kinds.
TimelineKind(kind) ==
    CASE kind \in {"session_start", "session_end"} -> "session"
      [] kind = "system" -> "alert"
      [] OTHER -> kind

ActivityTimelineEvent(a) ==
    Event(PlainId(a.id), a.ts, TimelineKind(a.kind), WholeText(a.summary), "absent")

ACTIVITY_FETCH_LIMIT == 100

\* GET /timeline-data of frontend-v2.ts.  The files are read, the events of
\* the three sources are pushed in the order sessions, jobs, activity, then
\* filtered by ts >= since as strings, sorted and cut to the limit; any
\* exception is answered with an empty list.  tl.refetched holds the ids the
\* same request gives over the same files when it is made again, where
\* Math.random() returns `randomAgain`.
TimelineV2Request ==
    /\ tl.pc = "idle"
    /\ \E sinceParam \in TimelineInputs.since, limitParam \in TimelineInputs.limit,
          sessions \in TimelineInputs.sessions, tasks \in TimelineInputs.tasks,
          random \in TimelineInputs.random, randomAgain \in TimelineInputs.random :
          LET since == EffectiveSince(sinceParam)
              limit == ParseInt(limitParam, TIMELINE_V2_DEFAULT_LIMIT)
              sessionEvents == [i \in 1..Len(sessions) |-> SessionEvent(sessions[i], random[i])]
              activity == listActivity(since, ACTIVITY_FETCH_LIMIT)
              events == sessionEvents
                            \o Flatten([i \in 1..Len(tasks) |-> CronEvent(tasks[i])])
                            \o [i \in 1..Len(activity) |-> ActivityTimelineEvent(activity[i])]
              Kept(e) == StrGeq(e.ts, since)
              filtered == SelectSeq(events, Kept)
              again == [i \in 1..Len(events) |->
                           IF i <= Len(sessions) THEN SessionEvent(sessions[i], randomAgain[i]).id
                           ELSE events[i].id]
          IN  IF \E i \in 1..Len(sessions) : SessionEventThrows(sessions[i])
              THEN tl' = [tl EXCEPT !.pc = "done", !.variant = "frontend-v2",
                                    !.since = since, !.limit = limit,
                                    !.status = 200, !.body = << >>]
              ELSE \E sorted \in SortNewestFirst(filtered) :
                      tl' = [tl EXCEPT !.pc = "done", !.variant = "frontend-v2",
                                       !.since = since, !.limit = limit,
                                       !.merged = events, !.refetched = again,
                                       !.status = 200, !.body = SliceTo(sorted, limit)]
    /\ UNCHANGED <<clock, lastSessionsJson, lastSessionsAt, req, sr, sn, call, web>>

NewTimeline ==
    [pc |-> "idle", variant |-> "none", since |-> TimeMissing, limit |-> NaN,
     merged |-> << >>, refetched |-> << >>, status |-> 0, body |-> << >>]

InitTimeline ==
    /\ clock = BootClockMs
    /\ lastSessionsJson = JNull
    /\ lastSessionsAt = 0
    /\ req = [r \in Slots |-> IdleRequest]
    /\ tl = NewTimeline
    /\ sr = Unused
    /\ sn = Unused
    /\ call = Unused
    /\ web = Unused

NextTimeline ==
    \/ TimelineArrive
    \/ TimelineCliReturn
    \/ TimelineV2Request

SpecTimeline == InitTimeline /\ [][NextTimeline]_vars

\* C2, as stated: a /timeline-data response holds at most one event per id.
C2_OneEventPerId ==
    (tl.pc = "done" /\ tl.status = 200) =>
        \A i, j \in 1..Len(tl.body) : tl.body[i].id = tl.body[j].id => i = j

\* C3, as stated: every event of a /timeline-data response has ts >= since
\* as timestamps, and the events are in non-increasing order of ts; read
\* for a `since` that is a timestamp.
C3_SinceAndOrder ==
    (tl.pc = "done" /\ tl.status = 200 /\ ~DateParse(tl.since).nan) =>
        /\ \A i \in 1..Len(tl.body) :
              NumGeq(DateParse(tl.body[i].ts), DateParse(tl.since))
        /\ \A i, j \in 1..Len(tl.body) :
              i < j => NumGeq(DateParse(tl.body[i].ts), DateParse(tl.body[j].ts))

----------------------------------------------------------------------------
(* Strings as sequences of characters, and buildSnippet.                   *)

\* \s on the characters of the texts: space, tab, line feed.
IsWs(c) == c \in {" ", "\t", "\n"}

\* U+2026, the marker buildSnippet appends.
Ellipsis == "<U+2026>"

\* text.replace(/\s+/g, ' '): every run of white space becomes one space.
ReplaceWsRuns(text) ==
    LET marked == [i \in 1..Len(text) |->
                      [c |-> IF IsWs(text[i]) THEN " " ELSE text[i],
                       inRun |-> IF i = 1 THEN FALSE
                                 ELSE IsWs(text[i]) /\ IsWs(text[i - 1])]]
        FirstOfRun(x) == ~x.inRun
        kept == SelectSeq(marked, FirstOfRun)
    IN  [i \in 1..Len(kept) |-> kept[i].c]

\* s.trim()
Trim(s) ==
    LET solid == {i \in 1..Len(s) : ~IsWs(s[i])}
    IN  IF solid = {} THEN << >>
        ELSE LET first == CHOOSE i \in solid : \A j \in solid : i <= j
                 last == CHOOSE i \in solid : \A j \in solid : i >= j
             IN  SubSeq(s, first, last)

SNIPPET_MAX_LEN == 220

\* A cut that keeps one character too few.
buildSnippetShort(text, maxLen) ==
    LET singleLine == Trim(ReplaceWsRuns(text))
    IN  IF Len(singleLine) <= maxLen THEN singleLine
        ELSE SubSeq(singleLine, 1, maxLen - 1) \o <<Ellipsis>>

buildSnippet(text, maxLen) ==
    LET singleLine == Trim(ReplaceWsRuns(text))
    IN  IF Len(singleLine) <= maxLen THEN singleLine
        ELSE SubSeq(singleLine, 1, maxLen) \o <<Ellipsis>>

----------------------------------------------------------------------------
(* buildSnippet on texts of two words around the limit of 220 characters.  *)

SnippetHalf == 110

\* The texts: two words of x and of y, white space between them and around
\* them.
SnippetTexts ==
    LET WordLengths == {0, 1, SnippetHalf - 1, SnippetHalf, SnippetHalf + 1}
        Gaps == {<< >>, <<" ">>, <<"\t", " ">>, <<" ", "\n", " ">>}
        Edges == {<< >>, <<" ">>, <<"\n", "\t">>}
        Repeat(c, n) == [i \in 1..n |-> c]
    IN  {lead \o Repeat("x", n1) \o gap \o Repeat("y", n2) \o trail :
            lead \in Edges, n1 \in WordLengths, gap \in Gaps, n2 \in WordLengths,
            trail \in Edges}

NewSnippet == [pc |-> "idle", text |-> << >>, out |-> << >>]

\* A text is handed to buildSnippet.
SnippetCall ==
    /\ sn.pc = "idle"
    /\ \E text \in SnippetTexts : sn' = [sn EXCEPT !.pc = "called", !.text = text]
    /\ UNCHANGED <<clock, lastSessionsJson, lastSessionsAt, req, tl, sr, call, web>>

\* buildSnippet returns.
SnippetReturn ==
    /\ sn.pc = "called"
    /\ sn' = [sn EXCEPT !.pc = "done", !.out = buildSnippet(sn.text, SNIPPET_MAX_LEN)]
    /\ UNCHANGED <<clock, lastSessionsJson, lastSessionsAt, req, tl, sr, call, web>>

InitSnippet ==
    /\ clock = BootClockMs
    /\ lastSessionsJson = JNull
    /\ lastSessionsAt = 0
    /\ req = [r \in Slots |-> IdleRequest]
    /\ tl = Unused
    /\ sr = Unused
    /\ sn = NewSnippet
    /\ call = Unused
    /\ web = Unused

NextSnippet ==
    \/ SnippetCall
    \/ SnippetReturn

SpecSnippet == InitSnippet /\ [][NextSnippet]_vars

\* The positions of the characters of s that are not white space.
SolidPositions(s) ==
    LET Solid(i) == ~IsWs(s[i])
    IN  SelectSeq([i \in 1..Len(s) |-> i], Solid)

\* The characters of s that are not white space.
SolidChars(s) == LET Solid(c) == ~IsWs(c) IN SelectSeq(s, Solid)

\* White space stands between the (k-1)-th and the k-th solid character.
GapBefore(s, k) ==
    LET at == SolidPositions(s) IN k > 1 /\ at[k] - at[k - 1] > 1

\* The length of the text once every run is one space and the ends are
\* trimmed: its solid characters and one space for each gap.
CollapsedLen(text) ==
    LET n == Len(SolidPositions(text))
    IN  n + Cardinality({k \in 1..n : GapBefore(text, k)})

\* p is the start of the collapsed text: it begins with a solid character,
\* its white space is single spaces that stand where the text has gaps, and
\* its solid characters are the first ones of the text.
IsCollapsedStart(p, text) ==
    LET at == SolidPositions(p)
        n == Len(at)
        solidText == SolidChars(text)
    IN  /\ \A i \in 1..Len(p) : IsWs(p[i]) => p[i] = " "
        /\ n <= Len(solidText)
        /\ SolidChars(p) = SubSeq(solidText, 1, n)
        /\ p /= << >> => ~IsWs(p[1])
        /\ \A k \in 2..n : at[k] - at[k - 1] = IF GapBefore(text, k) THEN 2 ELSE 1
        /\ n >= 1 /\ at[n] < Len(p) =>
              /\ at[n] = Len(p) - 1
              /\ n < Len(solidText) /\ GapBefore(text, n + 1)

\* C5: the snippet is the collapsed and trimmed text when that has at most
\* 220 characters; otherwise it is the first 220 characters of it followed
\* by the ellipsis marker, 221 characters in all.
C5_SnippetShape ==
    sn.pc = "done" =>
        IF CollapsedLen(sn.text) <= SNIPPET_MAX_LEN
        THEN /\ IsCollapsedStart(sn.out, sn.text)
             /\ Len(sn.out) = CollapsedLen(sn.text)
        ELSE /\ Len(sn.out) = SNIPPET_MAX_LEN + 1
             /\ sn.out[SNIPPET_MAX_LEN + 1] = Ellipsis
             /\ IsCollapsedStart(SubSeq(sn.out, 1, SNIPPET_MAX_LEN), sn.text)

\* A text with runs of white space and padded ends whose collapsed form is
\* longer than 220 characters has been cut.
C5_Witness ==
    /\ sn.pc = "done"
    /\ CollapsedLen(sn.text) > SNIPPET_MAX_LEN
    /\ Len(sn.text) > CollapsedLen(sn.text) + 2
    /\ IsWs(sn.text[1])

----------------------------------------------------------------------------
(* The search backend adapter (OfflineSqliteSearchBackend), the in-memory  *)
(* stub (InMemorySearchBackend) and the /memory/search handlers.           *)

\* An optional number: a field that may be absent (undefined).
Some(n) == [has |-> TRUE, n |-> n]
None == [has |-> FALSE, n |-> 0]
\* a ?? b
OrElse(a, b) == IF a.has THEN a ELSE b

\* An identifier of the engine: a number or a string, with its String(id).
EngineId(type, repr) == [type |-> type, repr |-> repr]

\* A result of the engine.  `wrapped` tells whether the record is held
\* under r.item; an absent text is << >> with hasText false.
Row(wrapped, id, text, score, lexicalScore, semanticScore) ==
    [wrapped |-> wrapped, id |-> id, text |-> text, score |-> score,
     lexicalScore |-> lexicalScore, semanticScore |-> semanticScore]

DEFAULT_TOP_K == 20
DEFAULT_CANDIDATES == 80

\* The SearchItem built from a lexical result.
LexicalItem(r) ==
    [id |-> r.id.repr, kind |-> "memory",
     snippet |-> buildSnippet(r.text, SNIPPET_MAX_LEN),
     score |-> OrElse(r.score, OrElse(r.lexicalScore, Some(0))).n,
     score_fts |-> OrElse(r.lexicalScore, r.score),
     score_embed |-> None,
     memory_id |-> r.id, text |-> r.text]

\* The SearchItem built from a hybrid result.
HybridItem(r) ==
    [id |-> r.id.repr, kind |-> "memory",
     snippet |-> buildSnippet(r.text, SNIPPET_MAX_LEN),
     score |-> OrElse(r.score, Some(0)).n,
     score_fts |-> r.lexicalScore,
     score_embed |-> r.semanticScore,
     memory_id |-> r.id, text |-> r.text]

\* A call of the engine: the function, the query it is given, the count
\* (limit or topK) and the candidates (0 where the call has none).
EngineCall(fn, q, n, candidates) == [fn |-> fn, q |-> q, n |-> n, candidates |-> candidates]

\* The query the adapter works on, kept as it came.
SearchQueryRaw(raw) == raw

\* const query = req.query.trim()
SearchQuery(raw) == Trim(raw)

\* The catch of a handler that answers with what it has.
SearchCatchPartial(s, message) ==
    [s EXCEPT !.pc = "done", !.threw = TRUE, !.status = 200,
              !.body = [i \in 1..Len(s.rows) |-> LexicalItem(s.rows[i])]]

\* The catch of the /memory/search handlers: 500 and {error: message}, with
\* 'search failed' for an empty message in frontend.ts and server.ts.  A
\* direct caller of the adapter gets the rejection.
SearchCatch(s, message) ==
    IF s.via = "direct"
    THEN [s EXCEPT !.pc = "done", !.threw = TRUE, !.error = message]
    ELSE [s EXCEPT !.pc = "done", !.threw = TRUE, !.status = 500,
                   !.error = IF message = "" /\ s.via /= "frontend-v2"
                             THEN "search failed" ELSE message]

\* The adapter returns items: the handler answers 200 with all of them.
SearchReturn(s, items) ==
    IF s.via = "direct"
    THEN [s EXCEPT !.pc = "done", !.returned = TRUE, !.body = items]
    ELSE [s EXCEPT !.pc = "done", !.returned = TRUE, !.status = 200, !.body = items]

\* The searches and what the engine does: who calls the adapter, the q,
\* mode and limit parameters, the k of a direct caller, the results the
\* engine returns and the messages of the errors it throws.
SearchInputs ==
    [via |-> {"direct", "frontend", "frontend-v2", "server"},
     query |-> SeqsUpTo({"a", " "}, 2) \cup {<<"\t", "\n">>, <<" ", "a", " ">>},
     mode |-> {"absent", "lexical", "semantic", "hybrid"},
     limit |-> {"absent", "2", "abc"},
     k |-> {None, Some(5)},
     rows |-> {Row(FALSE, EngineId("number", "1"), <<"a", " ", " ", "b">>,
                   Some(9), Some(4), Some(7)),
               Row(TRUE, EngineId("number", "2"), <<"\t", "a", "b", " ">>,
                   Some(5), Some(5), None),
               Row(FALSE, EngineId("number", "3"), <<"b">>, Some(9), None, Some(9)),
               Row(FALSE, EngineId("string", "1"), <<"a">>, Some(7), Some(7), Some(7)),
               Row(TRUE, EngineId("number", "4"), << >>, None, Some(2), None)},
     message |-> {"", "unable to open database file"}]

NewSearch ==
    [pc |-> "idle", via |-> "none", backend |-> "none", query |-> << >>,
     mode |-> "none", limit |-> NaN, candidates |-> 0, calls |-> << >>,
     searched |-> FALSE, rows |-> << >>, seeded |-> 0, threw |-> FALSE, returned |-> FALSE, error |-> "",
     status |-> 0, body |-> << >>]

\* A search begins: a handler reads q, mode and limit from the URL, or a
\* caller hands a request to the adapter; search() trims the query and
\* returns an empty list for an empty one.  In server.ts the backend is
\* loaded first, which can fail.
SearchStart ==
    /\ sr.pc = "idle"
    /\ \E via \in SearchInputs.via, raw \in SearchInputs.query,
          mode \in SearchInputs.mode, limit \in SearchInputs.limit,
          k \in SearchInputs.k, loaded \in BOOLEAN :
          LET started == [sr EXCEPT !.via = via, !.backend = "offline", !.query = raw,
                                    !.mode = IF mode = "absent" THEN "hybrid" ELSE mode,
                                    !.limit = ParseInt(limit, DEFAULT_TOP_K),
                                    !.candidates = IF via = "direct"
                                                   THEN OrElse(k, Some(DEFAULT_CANDIDATES)).n
                                                   ELSE DEFAULT_CANDIDATES]
          IN  /\ via /= "direct" => ~k.has
              /\ via = "direct" => limit /= "abc"
              /\ via /= "server" => loaded
              /\ IF ~loaded THEN sr' = SearchCatch(started, "No export found")
                 ELSE IF SearchQuery(raw) = << >>
                 THEN sr' = SearchReturn([started EXCEPT !.searched = TRUE], << >>)
                 ELSE sr' = [started EXCEPT !.searched = TRUE, !.pc = "openDb"]
    /\ UNCHANGED <<clock, lastSessionsJson, lastSessionsAt, req, tl, sn, call, web>>

\* openDb(this.cfg.dbPath)
SearchOpenDb ==
    /\ sr.pc = "openDb"
    /\ LET called == [sr EXCEPT !.calls = Append(@, EngineCall("openDb", << >>, NaN, 0))]
       IN  \/ sr' = [called EXCEPT !.pc = "initSchema"]
           \/ \E message \in SearchInputs.message : sr' = SearchCatch(called, message)
    /\ UNCHANGED <<clock, lastSessionsJson, lastSessionsAt, req, tl, sn, call, web>>

\* A branch that sends the mode semantic down the lexical path.
SearchInitSchemaSemanticLexical ==
    /\ sr.pc = "initSchema"
    /\ LET called == [sr EXCEPT !.calls = Append(@, EngineCall("initSchema", << >>, NaN, 0))]
       IN  \/ sr' = [called EXCEPT !.pc = IF sr.mode \in {"lexical", "semantic"}
                                          THEN "lexical" ELSE "escape"]
           \/ \E message \in SearchInputs.message : sr' = SearchCatch(called, message)
    /\ UNCHANGED <<clock, lastSessionsJson, lastSessionsAt, req, tl, sn, call, web>>

\* initSchema(db), then the branch on the mode.
SearchInitSchema ==
    /\ sr.pc = "initSchema"
    /\ LET called == [sr EXCEPT !.calls = Append(@, EngineCall("initSchema", << >>, NaN, 0))]
       IN  \/ sr' = [called EXCEPT !.pc = IF sr.mode = "lexical" THEN "lexical" ELSE "escape"]
           \/ \E message \in SearchInputs.message : sr' = SearchCatch(called, message)
    /\ UNCHANGED <<clock, lastSessionsJson, lastSessionsAt, req, tl, sn, call, web>>

\* searchLexical: searchItems(db, query, limit) and the mapping of its
\* results.
SearchLexical ==
    /\ sr.pc = "lexical"
    /\ LET called == [sr EXCEPT !.calls =
                          Append(@, EngineCall("searchItems", SearchQuery(sr.query), sr.limit, 0))]
       IN  \/ \E rows \in SeqsUpTo(SearchInputs.rows, MaxResults) :
                 sr' = SearchReturn([called EXCEPT !.rows = rows],
                                    [i \in 1..Len(rows) |-> LexicalItem(rows[i])])
           \/ \E message \in SearchInputs.message : sr' = SearchCatch(called, message)
    /\ UNCHANGED <<clock, lastSessionsJson, lastSessionsAt, req, tl, sn, call, web>>

\* searchHybrid: searchItems(db, query, 1).escapedQuery
SearchEscape ==
    /\ sr.pc = "escape"
    /\ LET called == [sr EXCEPT !.calls =
                          Append(@, EngineCall("searchItems", SearchQuery(sr.query), Num(1), 0))]
       IN  \/ sr' = [called EXCEPT !.pc = "hybrid"]
           \/ \E message \in SearchInputs.message : sr' = SearchCatch(called, message)
    /\ UNCHANGED <<clock, lastSessionsJson, lastSessionsAt, req, tl, sn, call, web>>

\* searchHybrid: await hybridSearch(db, memCfg, escapedQuery, {topK, candidates,
\* semanticWeight}) and the mapping of its results.
SearchHybrid ==
    /\ sr.pc = "hybrid"
    /\ LET called == [sr EXCEPT !.calls =
                          Append(@, EngineCall("hybridSearch", SearchQuery(sr.query),
                                               sr.limit, sr.candidates))]
       IN  \/ \E rows \in SeqsUpTo(SearchInputs.rows, MaxResults) :
                 sr' = SearchReturn([called EXCEPT !.rows = rows],
                                    [i \in 1..Len(rows) |-> HybridItem(rows[i])])
           \/ \E message \in SearchInputs.message : sr' = SearchCatch(called, message)
    /\ UNCHANGED <<clock, lastSessionsJson, lastSessionsAt, req, tl, sn, call, web>>

\* s.toLowerCase()
Lower(s) ==
    [i \in 1..Len(s) |-> CASE s[i] = "A" -> "a"
                            [] s[i] = "B" -> "b"
                            [] OTHER -> s[i]]

\* hay.includes(q)
Includes(hay, q) ==
    \E i \in 1..(Len(hay) + 1) :
        i + Len(q) - 1 <= Len(hay) /\ SubSeq(hay, i, i + Len(q) - 1) = q

RECURSIVE MatchesFrom(_, _, _)
\* The matches of the global regular expression of the literal q in hay
\* from position i on: they do not overlap.
MatchesFrom(hay, q, i) ==
    IF i + Len(q) - 1 > Len(hay) THEN 0
    ELSE IF SubSeq(hay, i, i + Len(q) - 1) = q
    THEN 1 + MatchesFrom(hay, q, i + Len(q))
    ELSE MatchesFrom(hay, q, i + 1)

\* (hay.match(new RegExp(escaped q, 'g')) || []).length; the empty pattern
\* matches at every position.
Occurrences(hay, q) ==
    IF q = << >> THEN Len(hay) + 1 ELSE MatchesFrom(hay, q, 1)

\* A seeded item of the in-memory backend; an absent title is hasTitle false.
MemItem(id, hasTitle, title, snippet) ==
    [id |-> id, hasTitle |-> hasTitle, title |-> title, snippet |-> snippet]

\* (item.title ?? '') + ' ' + item.snippet
Haystack(item) == (IF item.hasTitle THEN item.title ELSE << >>) \o <<" ">> \o item.snippet

RECURSIVE StableByScore(_)
\* scored.sort((a, b) => b.score - a.score), a stable sort: the last item
\* is put into the sorted rest, after the entries whose score is not lower.
StableByScore(items) ==
    IF items = << >> THEN << >>
    ELSE LET x == items[Len(items)]
             sorted == StableByScore(SubSeq(items, 1, Len(items) - 1))
             ahead == Cardinality({i \in 1..Len(sorted) : sorted[i].score >= x.score})
         IN  SubSeq(sorted, 1, ahead) \o <<x>> \o SubSeq(sorted, ahead + 1, Len(sorted))

\* InMemorySearchBackend.search
InMemorySearch(items, query, limit) ==
    LET q == Lower(query)
        Matching(item) == Includes(Lower(Haystack(item)), q)
        filtered == SelectSeq(items, Matching)
        Scored(item) ==
            LET occurrences == Occurrences(Lower(Haystack(item)), q)
            IN  [id |-> item.id, kind |-> "memory", snippet |-> item.snippet,
                 score |-> IF occurrences /= 0 THEN occurrences ELSE 1,
                 score_fts |-> None, score_embed |-> None,
                 memory_id |-> EngineId("string", item.id), text |-> item.snippet]
    IN  SliceTo(StableByScore([i \in 1..Len(filtered) |-> Scored(filtered[i])]), limit)

\* The searches on the in-memory backend: the items it can be seeded with,
\* the queries and the limits.
MemoryInputs ==
    [items |-> {MemItem("m1", TRUE, <<"A">>, <<"b", "a">>),
                MemItem("m2", FALSE, << >>, <<"a", "b", "a", "a">>),
                MemItem("m3", TRUE, <<"b">>, <<"a", "a">>)},
     query |-> {<<"a">>, <<"A", "b">>, << >>},
     limit |-> {"absent", "0", "1", "2"}]

\* A search on the in-memory backend with the items it was seeded with.
SearchInMemory ==
    /\ sr.pc = "idle"
    /\ \E seed \in SeqsUpTo(MemoryInputs.items, MaxSeed), query \in MemoryInputs.query,
          limit \in MemoryInputs.limit :
          LET started == [sr EXCEPT !.via = "direct", !.backend = "memory",
                                    !.query = query, !.mode = "hybrid",
                                    !.limit = ParseInt(limit, DEFAULT_TOP_K),
                                    !.searched = TRUE, !.seeded = Len(seed)]
          IN  sr' = SearchReturn(started, InMemorySearch(seed, query, started.limit))
    /\ UNCHANGED <<clock, lastSessionsJson, lastSessionsAt, req, tl, sn, call, web>>

InitSearch ==
    /\ clock = BootClockMs
    /\ lastSessionsJson = JNull
    /\ lastSessionsAt = 0
    /\ req = [r \in Slots |-> IdleRequest]
    /\ tl = Unused
    /\ sr = NewSearch
    /\ sn = Unused
    /\ call = Unused
    /\ web = Unused

NextSearch ==
    \/ SearchStart
    \/ SearchOpenDb
    \/ SearchInitSchema
    \/ SearchLexical
    \/ SearchEscape
    \/ SearchHybrid
    \/ SearchInMemory

SpecSearch == InitSearch /\ [][NextSearch]_vars

\* C4: a search of the adapter whose query holds nothing but white space
\* returns an empty list and calls nothing of the engine, whatever the
\* mode, the limit and k.
C4_EmptyQueryNoEngine ==
    (sr.backend = "offline" /\ sr.searched
        /\ \A i \in 1..Len(sr.query) : IsWs(sr.query[i]))
        => /\ sr.calls = << >>
           /\ sr.pc = "done" /\ sr.returned /\ ~sr.threw
           /\ sr.body = << >>

\* A query of white space only, not empty, has been answered.
C4_Witness ==
    /\ sr.backend = "offline" /\ sr.searched /\ sr.pc = "done"
    /\ sr.query /= << >>
    /\ \A i \in 1..Len(sr.query) : IsWs(sr.query[i])

\* C6, as stated: the ids of the items of one search response are pairwise
\* distinct, whatever the engine returned.
C6_DistinctIds ==
    (sr.pc = "done" /\ sr.returned /\ sr.backend = "offline") =>
        \A i, j \in 1..Len(sr.body) : sr.body[i].id = sr.body[j].id => i = j

\* C7, as stated: a search response is in descending order of score, and
\* the in-memory backend returns at most `limit` items.
C7_DescendingScore ==
    (sr.pc = "done" /\ sr.returned) =>
        /\ \A i, j \in 1..Len(sr.body) : i < j => sr.body[i].score >= sr.body[j].score
        /\ sr.backend = "memory" => Len(sr.body) <= sr.limit.n

\* C8: a /memory/search request during which the backend could not be
\* loaded, the store not be opened or the query not be run is answered 500
\* with an error message and without any item; every other request is
\* answered 200 with one item for each result of the engine, in order.
C8_FailureIs500 ==
    (sr.pc = "done" /\ sr.via \in {"frontend", "frontend-v2", "server"}) =>
        IF sr.threw
        THEN /\ sr.status = 500 /\ sr.body = << >> /\ ~sr.returned
             /\ sr.via /= "frontend-v2" => sr.error /= ""
        ELSE /\ sr.status = 200 /\ sr.returned /\ sr.error = ""
             /\ Len(sr.body) = Len(sr.rows)
             /\ \A i \in 1..Len(sr.rows) :
                   /\ sr.body[i].id = sr.rows[i].id.repr
                   /\ sr.body[i].text = sr.rows[i].text

\* The hybrid search threw after the store was opened and the query was
\* escaped, and the request was answered.
C8_Witness ==
    /\ sr.pc = "done" /\ sr.threw /\ sr.via \in {"frontend", "frontend-v2", "server"}
    /\ Len(sr.calls) = 4

----------------------------------------------------------------------------
(* Calls: the tools of the MCP server (mcp-server.ts), the log-line loops  *)
(* of /timeline-data and /activity on a batch of lines, and the two        *)
(* schedule formatters of /tasks.                                          *)

MaxBatch == 2

\* JSON.stringify(value): the JSON text of a value.
JsonStringify(value) == J("text", <<value>>)

\* JSON.parse(text): the value, or Failed when it throws a SyntaxError.
JsonParse(text) == IF text.t = "text" THEN text.v[1] ELSE Failed

\* Lines of `openclaw logs --json`, one for each way through the rule
\* chains.
ClassifyLines ==
    LET t == Iso(2, 10, 0, "Z")
        cronX == Message("cron job X ran", 14, FALSE, "", "", FALSE, "", FALSE, TRUE, FALSE)
        cronLong == Message("cron scheduler: job nightly-sync overran its window and was rescheduled to the next slot", 88,
                            FALSE, "", "", FALSE, "", FALSE, TRUE, FALSE)
        memoryCron == Message("memory cron sync finished", 25,
                              FALSE, "", "", FALSE, "", TRUE, TRUE, FALSE)
        toolStart == Message("embedded run tool start: runId=r1 tool=exec", 43,
                             TRUE, "exec", "start", FALSE, "", FALSE, FALSE, FALSE)
        toolQueued == Message("embedded run tool call queued", 29,
                              TRUE, "", "", FALSE, "", FALSE, FALSE, FALSE)
        sessionNew == Message("session state: sessionId=s1 prev=idle new=processing", 52,
                              FALSE, "", "", TRUE, "processing", FALSE, FALSE, FALSE)
        sessionSame == Message("session state unchanged", 23,
                               FALSE, "", "", TRUE, "", FALSE, FALSE, FALSE)
        disk == Message("disk almost full", 16, FALSE, "", "", FALSE, "", FALSE, FALSE, FALSE)
        long == Message("provider request failed after 3 attempts: upstream returned status 503 for POST /v1/responses", 93,
                        FALSE, "", "", FALSE, "", FALSE, FALSE, FALSE)
        benign == Message("Config was last written by a newer OpenClaw (2.1.0); current is 2.0.3", 69,
                          FALSE, "", "", FALSE, "", FALSE, FALSE, TRUE)
        empty == Message("", 0, FALSE, "", "", FALSE, "", FALSE, FALSE, FALSE)
    IN  {LogLine("object", "absent", t, "cron", cronX, "info"),
         LogLine("object", "log", t, "cron", cronX, "info"),
         LogLine("object", "log", t, "gateway", cronLong, "warn"),
         LogLine("object", "log", t, "gateway", memoryCron, "info"),
         LogLine("object", "log", t, "agent/embedded", toolStart, "absent"),
         LogLine("object", "log", t, "agent/embedded", toolQueued, "warn"),
         LogLine("object", "log", t, "diagnostic", sessionNew, "info"),
         LogLine("object", "log", t, "diagnostic", sessionSame, "error"),
         LogLine("object", "log", t, "gateway", disk, "warn"),
         LogLine("object", "absent", t, "gateway", disk, "warn"),
         LogLine("object", "log", t, "gateway", long, "error"),
         LogLine("object", "log", t, "gateway", benign, "warn"),
         LogLine("object", "log", t, "gateway", disk, "info"),
         LogLine("object", "metric", t, "cron", cronX, "info"),
         \* a line cut before its closing brace, and a line of plain text
         LogLine("badjson", "log", t, "cron", cronX, "info"),
         LogLine("text", "absent", TimeMissing, "absent", empty, "absent")}

\* One iteration of the loop of clawscope_get_activity; the lines that do
\* not start with "{" were filtered out before, the events carry no id.
McpClassify(line) ==
    LET subsystem == IF line.subsystem = "absent" THEN "" ELSE line.subsystem
        message == line.message
        level == IF line.level = "absent" THEN "debug" ELSE line.level
        id == PlainId("absent")
    IN  IF line.shape /= "object" THEN << >>
        ELSE IF line.type /= "log" THEN << >>
        ELSE IF subsystem = "agent/embedded" /\ message.toolSp
        THEN IF message.tool /= "" /\ message.action /= ""
             THEN << Event(id, line.time, "tool",
                           Summary(IF message.action = "start" THEN "(start) " ELSE "(end) ",
                                   message.tool, TokenLen(message.tool)),
                           level) >>
             ELSE << >>
        ELSE IF subsystem = "diagnostic" /\ message.sessState
        THEN << Event(id, line.time, "session", SliceMessage(message, 100), level) >>
        ELSE IF subsystem = "cron" \/ message.cron
        THEN << Event(id, line.time, "cron", SliceMessage(message, 100), level) >>
        ELSE IF level \in {"warn", "error"} /\ ~message.benign
        THEN << Event(id, line.time, "alert", SliceMessage(message, 150), level) >>
        ELSE << >>

\* A catch that lets the exception go on.
ToolCatchRethrow(c, message) == [c EXCEPT !.pc = "done", !.threw = TRUE]

\* catch (e) { return { content: [{ type: 'text', text: JSON.stringify({ error: e.message }) }] } }
ToolCatch(c, message) ==
    [c EXCEPT !.pc = "done", !.out = JsonStringify(JError(message))]

\* One call of a tool of the MCP server, from the arguments to the returned
\* content.  The CLI resolves with its output or rejects (exit code, timeout
\* of 15 s); the engine returns a value or throws.
McpTool ==
    /\ call.pc = "idle"
    /\ \/ \E tool \in {"clawscope_list_sessions", "clawscope_list_tasks"},
             ok \in BOOLEAN,
             stdout \in {Stdout(TRUE, JList(<<"s2">>)), Stdout(FALSE, J("object", << >>)),
                         Stdout(FALSE, JNull), Stdout(TRUE, JNull),
                         Stdout(FALSE, J("garbage", << >>))} :
             LET called == [call EXCEPT !.op = tool, !.arg = [ok |-> ok, stdout |-> stdout]]
                 data == ParseCliJson(stdout)
             IN  IF ~ok THEN call' = ToolCatch(called, "Command failed: openclaw")
                 ELSE IF data = Failed THEN call' = ToolCatch(called, "Unexpected token")
                 ELSE call' = [called EXCEPT !.pc = "done", !.out = JsonStringify(data)]
       \/ \E ok \in BOOLEAN, limit \in {None, Some(1)},
             lines \in SeqsUpTo(ClassifyLines, MaxBatch) :
             LET called == [call EXCEPT !.op = "clawscope_get_activity",
                                        !.arg = [ok |-> ok, limit |-> limit, lines |-> lines]]
                 pushed == [i \in 1..Len(lines) |-> McpClassify(lines[i])]
                 events == Flatten(pushed)
             IN  IF ~ok THEN call' = ToolCatch(called, "Command failed: openclaw")
                 ELSE call' = [called EXCEPT
                                  !.pc = "done", !.pushed = pushed, !.events = events,
                                  !.out = JsonStringify(JList(
                                              SliceTo(events, Num(OrElse(limit, Some(50)).n))))]
       \/ \E tool \in {"clawscope_search_memory", "clawscope_get_graph",
                       "clawscope_get_graph_stats"},
             ok \in BOOLEAN, entity \in BOOLEAN,
             result \in {J("object", << >>), JList(<< >>), JList(<<"fact">>), JNull} :
             LET called == [call EXCEPT !.op = tool,
                                        !.arg = [ok |-> ok, entity |-> entity,
                                                 result |-> result]]
             IN  /\ entity => tool = "clawscope_get_graph"
                 /\ IF ~ok THEN call' = ToolCatch(called, "no such table: items")
                    ELSE call' = [called EXCEPT !.pc = "done", !.out = JsonStringify(result)]
    /\ UNCHANGED <<clock, lastSessionsJson, lastSessionsAt, req, tl, sr, sn, web>>

\* The loop over the lines in /timeline-data and in /activity of
\* frontend.ts, on one batch of lines.
ClassifyBatch ==
    /\ call.pc = "idle"
    /\ \E loop \in {"/timeline-data", "/activity"},
          lines \in SeqsUpTo(ClassifyLines, MaxBatch) :
          LET sinceTs == DateParse(EffectiveSince(TimeMissing))
              pushed == [i \in 1..Len(lines) |->
                            IF loop = "/timeline-data"
                            THEN TimelineClassify(lines[i], sinceTs)
                            ELSE ActivityClassify(lines[i])]
          IN  call' = [call EXCEPT !.pc = "done", !.op = loop, !.arg = [lines |-> lines],
                                   !.pushed = pushed, !.events = Flatten(pushed)]
    /\ UNCHANGED <<clock, lastSessionsJson, lastSessionsAt, req, tl, sr, sn, web>>

\* formatSchedule(job.schedule) of fetchTasksFromPlugin, or the schedule
\* expression of the CLI fallback of /tasks, on one descriptor.
ScheduleFormat ==
    /\ call.pc = "idle"
    /\ \E fn \in {"formatSchedule", "cli"},
          kind \in {"absent", "cron", "every", "at", "weekly"},
          expr \in {"", "*/30 * * * *"},
          everyMs \in {0, 20000, 90000, 600000},
          at \in {"", "2026-01-01T08:00:00Z"} :
          LET schedule == Schedule(kind, expr, everyMs, at)
          IN  call' = [call EXCEPT !.pc = "done", !.op = fn,
                                   !.arg = [schedule |-> schedule],
                                   !.out = IF fn = "formatSchedule"
                                           THEN formatSchedule(schedule)
                                           ELSE CliSchedule(schedule)]
    /\ UNCHANGED <<clock, lastSessionsJson, lastSessionsAt, req, tl, sr, sn, web>>

InitCalls ==
    /\ clock = BootClockMs
    /\ lastSessionsJson = JNull
    /\ lastSessionsAt = 0
    /\ req = [r \in Slots |-> IdleRequest]
    /\ tl = Unused
    /\ sr = Unused
    /\ sn = Unused
    /\ call = [pc |-> "idle", op |-> "none", arg |-> << >>, pushed |-> << >>,
               events |-> << >>, threw |-> FALSE, out |-> J("none", << >>)]
    /\ web = Unused

NextCalls ==
    \/ McpTool
    \/ ClassifyBatch
    \/ ScheduleFormat

SpecCalls == InitCalls /\ [][NextCalls]_vars

\* C11: every call of an MCP tool ends by returning a text that is
\* parseable JSON, the serialized result or a serialized {error: message};
\* a failure of the CLI, of JSON.parse or of the engine becomes the error
\* object and never leaves the handler as an exception.
C11_ToolsAnswerJson ==
    (call.pc = "done" /\ call.op \notin {"/timeline-data", "/activity", "formatSchedule", "cli"}) =>
        /\ ~call.threw
        /\ JsonParse(call.out) /= Failed
        /\ ~call.arg.ok => JsonParse(call.out).t = "error" /\ JsonParse(call.out).v /= << >>
        /\ (call.arg.ok /\ call.op = "clawscope_get_activity") =>
              JsonParse(call.out).t = "list"
        /\ (call.arg.ok /\ call.op \in {"clawscope_search_memory", "clawscope_get_graph",
                                        "clawscope_get_graph_stats"}) =>
              JsonParse(call.out) = call.arg.result
        /\ (call.arg.ok /\ call.op \in {"clawscope_list_sessions", "clawscope_list_tasks"}) =>
              \/ JsonParse(call.out) = call.arg.stdout.payload
              \/ JsonParse(call.out).t = "error"

\* The CLI printed text that is not JSON to clawscope_list_sessions, and the
\* tool returned the error object.
C11_Witness ==
    /\ call.pc = "done" /\ call.op = "clawscope_list_sessions"
    /\ call.arg.ok /\ call.arg.stdout.payload.t = "garbage"
    /\ JsonParse(call.out).t = "error"

\* The number of the first rule of the classifier, as section 4.3 of the
\* specification words the rules, that a line matches; 0 when none does.
FirstSpecRule(line) ==
    LET m == line.message
    IN  CASE line.subsystem = "agent/embedded" /\ m.toolSp /\ m.tool /= "" /\ m.action /= "" -> 1
          [] line.subsystem = "diagnostic" /\ m.sessState /\ m.newState /= "" -> 2
          [] OTHER ->
                IF line.subsystem = "memory" \/ m.mem THEN 3
                ELSE IF line.subsystem = "cron" \/ m.cron THEN 4
                ELSE IF line.level \in {"warn", "error"} /\ ~m.benign THEN 5
                ELSE 0

\* The line is a JSON object that is a log record: its type is "log" or it
\* has none.
IsLogRecord(line) == line.shape = "object" /\ line.type \in {"absent", "log"}

\* The first n characters of the message, as a summary.
Truncated(line, n) ==
    [pre |-> "", of |-> line.message.text,
     keep |-> IF line.message.len <= n THEN line.message.len ELSE n]

\* C12, as stated: in /timeline-data and in /activity, a line that is a cron
\* line (subsystem "cron" or "cron" in the message) and matches none of the
\* rules 1 to 3 gives exactly one event, of kind cron, whose summary is the
\* first 60 characters of the message; so does the line that has only the
\* fields time, subsystem, message and level.
C12_CronLineOneEvent ==
    (call.pc = "done" /\ call.op \in {"/timeline-data", "/activity"}) =>
        \A i \in 1..Len(call.arg.lines) :
            LET line == call.arg.lines[i]
            IN  (IsLogRecord(line) /\ FirstSpecRule(line) = 4) =>
                    /\ Len(call.pushed[i]) = 1
                    /\ call.pushed[i][1].kind = "cron"
                    /\ call.pushed[i][1].summary = Truncated(line, 60)

\* C13, as stated: a line of level warn or error without the benign
\* version-mismatch string that matches none of the rules 1 to 4, as the
\* specification words them, gives exactly one event of kind alert whose
\* summary is the first 80 characters of the message.
C13_AlertLineOneEvent ==
    (call.pc = "done" /\ call.op \in {"/timeline-data", "/activity"}) =>
        \A i \in 1..Len(call.arg.lines) :
            LET line == call.arg.lines[i]
            IN  (IsLogRecord(line) /\ FirstSpecRule(line) = 5) =>
                    /\ Len(call.pushed[i]) = 1
                    /\ call.pushed[i][1].kind = "alert"
                    /\ call.pushed[i][1].summary = Truncated(line, 80)

\* The lines of a batch that are JSON objects, in order.
WellFormed(lines) ==
    LET IsObject(line) == line.shape = "object" IN SelectSeq(lines, IsObject)

\* C14: in the loops of /timeline-data and of clawscope_get_activity a line
\* that is not valid JSON gives no event and no exception, and the events
\* of a batch are the events of the batch without its malformed lines.
C14_MalformedSkipped ==
    (call.pc = "done" /\ call.op \in {"/timeline-data", "clawscope_get_activity"}
        /\ (call.op = "clawscope_get_activity" => call.arg.ok)) =>
        LET kept == WellFormed(call.arg.lines)
            sinceTs == DateParse(EffectiveSince(TimeMissing))
        IN  /\ ~call.threw
            /\ \A i \in 1..Len(call.arg.lines) :
                  call.arg.lines[i].shape /= "object" => call.pushed[i] = << >>
            /\ call.events =
                  Flatten([i \in 1..Len(kept) |->
                              IF call.op = "/timeline-data"
                              THEN TimelineClassify(kept[i], sinceTs)
                              ELSE McpClassify(kept[i])])

\* A batch of a line that does not parse followed by a line that gives an
\* event.
C14_Witness ==
    /\ call.pc = "done" /\ call.op = "/timeline-data"
    /\ Len(call.arg.lines) = 2
    /\ call.arg.lines[1].shape = "badjson"
    /\ Len(call.events) = 1

\* C15: in /timeline-data a line gives at most one event, and the kind of
\* that event is the kind of the first rule, in the order tool, session,
\* memory, cron, alert, whose condition holds for the line.
C15_FirstRuleWins ==
    (call.pc = "done" /\ call.op = "/timeline-data") =>
        \A i \in 1..Len(call.arg.lines) :
            /\ Len(call.pushed[i]) <= 1
            /\ call.pushed[i] /= << >> =>
                  call.pushed[i][1].kind =
                      CASE FirstSpecRule(call.arg.lines[i]) = 1 -> "tool"
                        [] FirstSpecRule(call.arg.lines[i]) = 2 -> "session"
                        [] FirstSpecRule(call.arg.lines[i]) = 3 -> "memory"
                        [] FirstSpecRule(call.arg.lines[i]) = 4 -> "cron"
                        [] FirstSpecRule(call.arg.lines[i]) = 5 -> "alert"
                        [] OTHER -> "none"

\* A line whose message holds "memory" and "cron" was classified memory, and
\* a line of level warn that mentions cron was classified cron.
C15_Witness ==
    /\ call.pc = "done" /\ call.op = "/timeline-data"
    /\ Len(call.arg.lines) = 2
    /\ call.arg.lines[1].message.mem /\ call.arg.lines[1].message.cron
    /\ call.pushed[1] /= << >> /\ call.pushed[1][1].kind = "memory"
    /\ call.arg.lines[2].level = "warn" /\ call.arg.lines[2].message.cron
    /\ call.pushed[2] /= << >> /\ call.pushed[2][1].kind = "cron"

\* C16, as stated: both schedule formatters give the raw expression for
\* kind cron, "every Nmin" with N the minutes rounded from everyMs for kind
\* every, "once at <timestamp>" or, without a timestamp, "once" for kind at,
\* and "unknown" for a missing descriptor and for every other kind.
C16_ScheduleFormat ==
    (call.pc = "done" /\ call.op \in {"formatSchedule", "cli"}) =>
        LET schedule == call.arg.schedule
        IN  CASE schedule.kind = "cron" ->
                    schedule.expr /= "" => call.out = [pat |-> "%s", n |-> 0, arg |-> schedule.expr]
              [] schedule.kind = "every" ->
                    call.out = [pat |-> "every %dmin",
                                n |-> (schedule.everyMs + 30000) \div 60000, arg |-> ""]
              [] schedule.kind = "at" ->
                    call.out = IF schedule.at /= ""
                               THEN [pat |-> "once at %s", n |-> 0, arg |-> schedule.at]
                               ELSE [pat |-> "once", n |-> 0, arg |-> ""]
              [] OTHER -> call.out = [pat |-> "unknown", n |-> 0, arg |-> ""]

-----------------------------------------------------------------------------
(* The HTTP servers of frontend.ts and frontend-v2: the settings file, the *)
(* best-effort panels and the requests no route takes.  web.variant is the *)
(* server that runs; web.last is the last request whose handling ended,    *)
(* with status 0 when nothing was written to its response; web.before is  *)
(* the file as it was when the last 'end' callback of a save began, and    *)
(* web.saved the value the last completed save wrote.                      *)

\* The requests one run of a server handles.
MaxWebRequests == 3

\* Request bodies and file contents: the text of a JSON value, an empty
\* text, or text that JSON.parse rejects.  A JSON object is the sequence of
\* its key/value pairs.
SettingsTexts ==
    LET old == J("object", << [k |-> "theme", v |-> "dark"], [k |-> "refresh", v |-> "30"] >>)
        light == J("object", << [k |-> "theme", v |-> "light"] >>)
    IN  [old |-> JsonStringify(old),
         bodies |-> {JsonStringify(light), JsonStringify(old),
                     JsonStringify(J("object", << >>)), JsonStringify(JNull),
                     J("empty", << >>), J("garbage", << >>)}]

\* loadLocalSettings of frontend.ts: {} without a file, for an empty file
\* (raw || '{}') and when reading or parsing throws.
loadLocalSettings(file) ==
    IF file.t = "nofile" THEN J("object", << >>)
    ELSE IF file.t = "empty" THEN J("object", << >>)
    ELSE IF JsonParse(file) = Failed THEN J("object", << >>)
    ELSE JsonParse(file)

\* A save that keeps the keys of the stored settings the new ones lack.
saveLocalSettingsMerged(file, data) ==
    LET stored == loadLocalSettings(file)
        Kept(pair) == \A i \in 1..Len(data.v) : data.v[i].k /= pair.k
    IN  IF data.t = "object" /\ stored.t = "object"
        THEN JsonStringify(J("object", SelectSeq(stored.v, Kept) \o data.v))
        ELSE JsonStringify(data)

\* saveLocalSettings of frontend.ts: the new content of the file, written
\* in one synchronous writeFileSync; the stored content is not read.
saveLocalSettings(file, data) == JsonStringify(data)

\* The answer of a panel route; store is "ok", "fail" (the store cannot be
\* opened or queried) or "unsupported" (a backend without getCategories).
\* frontend.ts has no /memory/stats route.
PanelAnswer(variant, path, store) ==
    LET Answer(status, body) == [status |-> status, body |-> body]
        Error(message) == J("object", << [k |-> "error", v |-> message] >>)
        zeros == << [k |-> "totalItems", v |-> "0"], [k |-> "totalFacts", v |-> "0"],
                    [k |-> "totalEntities", v |-> "0"], [k |-> "totalPredicates", v |-> "0"] >>
    IN  IF variant = "frontend-v2"
        THEN CASE path = "/memory/categories" ->
                    IF store = "fail"
                    THEN Answer(200, JList(<<"personal", "work", "project", "reminder", "preference">>))
                    ELSE Answer(200, JList(<<"work">>))
               [] path = "/memory/stats" ->
                    IF store = "fail"
                    THEN Answer(200, J("object", zeros \o << [k |-> "error", v |-> "unable to open database file"] >>))
                    ELSE Answer(200, J("object", << [k |-> "totalItems", v |-> "2"], [k |-> "totalFacts", v |-> "1"],
                                                    [k |-> "totalEntities", v |-> "1"], [k |-> "totalPredicates", v |-> "1"] >>))
               [] OTHER ->
                    IF store = "fail"
                    THEN Answer(200, J("object", << [k |-> "nodes", v |-> "[]"], [k |-> "edges", v |-> "[]"],
                                                    [k |-> "stats", v |-> "{}"],
                                                    [k |-> "error", v |-> "unable to open database file"] >>))
                    ELSE Answer(200, J("object", << [k |-> "nodes", v |-> "[n1]"], [k |-> "edges", v |-> "[]"],
                                                    [k |-> "stats", v |-> "{...}"] >>))
        ELSE CASE path = "/memory/categories" ->
                    IF store = "unsupported" THEN Answer(501, Error("Categories not supported by backend"))
                    ELSE IF store = "fail" THEN Answer(500, Error("unable to open database file"))
                    ELSE Answer(200, JList(<<"work">>))
               [] OTHER ->
                    IF store = "fail" THEN Answer(500, Error("unable to open database file"))
                    ELSE Answer(200, J("object", << [k |-> "nodes", v |-> "[n1]"], [k |-> "edges", v |-> "[]"],
                                                    [k |-> "stats", v |-> "{...}"] >>))

\* One request that its handler answers before it returns.  frontend-v2
\* answers OPTIONS first and routes on the path alone; frontend.ts routes
\* on method and path and has no branch for OPTIONS; what no route takes is
\* answered 404 'Not found'.
HttpRequest ==
    /\ web.pc = "serving" /\ web.up
    /\ web.count < MaxWebRequests
    /\ \E method \in {"GET", "POST", "OPTIONS"},
          path \in {"/settings/config", "/settings/save", "/memory/stats",
                    "/memory/categories", "/graph-data", "/nowhere"},
          store \in {"ok", "fail", "unsupported"} :
          /\ ~(web.variant = "frontend" /\ method = "POST" /\ path = "/settings/save")
          /\ LET notFound == [status |-> 404, body |-> J("plain", <<"Not found">>)]
                 panel == path \in {"/memory/categories", "/graph-data"}
                 answer ==
                     IF web.variant = "frontend-v2"
                     THEN IF method = "OPTIONS" THEN [status |-> 200, body |-> J("empty", << >>)]
                          ELSE IF panel \/ path = "/memory/stats"
                          THEN PanelAnswer(web.variant, path, store)
                          ELSE notFound
                     ELSE IF method = "GET" /\ path = "/settings/config"
                          THEN [status |-> 200, body |-> JsonStringify(loadLocalSettings(web.file))]
                          ELSE IF method = "GET" /\ panel
                          THEN PanelAnswer(web.variant, path, store)
                          ELSE notFound
             IN  web' = [web EXCEPT !.count = @ + 1,
                                    !.last = [method |-> method, path |-> path, store |-> store,
                                              req |-> J("none", << >>),
                                              status |-> answer.status, body |-> answer.body]]
    /\ UNCHANGED <<clock, lastSessionsJson, lastSessionsAt, req, tl, sr, sn, call>>

\* POST /settings/save of frontend.ts: the handler registers the 'data' and
\* 'end' callbacks and returns; nothing in it throws.
SettingsSavePost ==
    /\ web.pc = "serving" /\ web.up /\ web.variant = "frontend"
    /\ web.count < MaxWebRequests
    /\ \E body \in SettingsTexts.bodies :
          web' = [web EXCEPT !.count = @ + 1, !.pending = Append(@, body)]
    /\ UNCHANGED <<clock, lastSessionsJson, lastSessionsAt, req, tl, sr, sn, call>>

\* The 'end' callback of one pending save: the body is parsed ({} for an
\* empty body), the file is written and 200 {ok: true} is sent.  The
\* callback runs outside the try of the handler: when JSON.parse throws,
\* nothing is written to the response and the exception is uncaught, which
\* ends the process unless the program that started the server handles it.
SettingsSaveEnd ==
    /\ web.pc = "serving" /\ web.up
    /\ \E i \in 1..Len(web.pending), survives \in BOOLEAN :
          LET body == web.pending[i]
              rest == [j \in 1..Len(web.pending) - 1 |->
                          IF j < i THEN web.pending[j] ELSE web.pending[j + 1]]
              data == IF body.t = "empty" THEN J("object", << >>) ELSE JsonParse(body)
              ended(status, text) == [method |-> "POST", path |-> "/settings/save", store |-> "ok",
                                      req |-> body, status |-> status, body |-> text]
          IN  IF data = Failed
              THEN web' = [web EXCEPT !.pending = rest, !.up = survives,
                                      !.before = web.file,
                                      !.last = ended(0, J("none", << >>))]
              ELSE /\ survives
                   /\ web' = [web EXCEPT !.pending = rest,
                                         !.before = web.file,
                                         !.file = saveLocalSettings(web.file, data),
                                         !.saved = data,
                                         !.last = ended(200, JsonStringify(
                                                     J("object", << [k |-> "ok", v |-> "true"] >>)))]
    /\ UNCHANGED <<clock, lastSessionsJson, lastSessionsAt, req, tl, sr, sn, call>>

InitWeb ==
    /\ clock = BootClockMs
    /\ lastSessionsJson = JNull
    /\ lastSessionsAt = 0
    /\ req = [r \in Slots |-> IdleRequest]
    /\ tl = Unused /\ sr = Unused /\ sn = Unused /\ call = Unused
    /\ \E variant \in {"frontend", "frontend-v2"},
          file \in {J("nofile", << >>), J("empty", << >>), J("garbage", << >>), SettingsTexts.old} :
          web = [pc |-> "serving", variant |-> variant, up |-> TRUE, count |-> 0,
                 file |-> file, before |-> file, saved |-> J("none", << >>),
                 pending |-> << >>,
                 last |-> [method |-> "none", path |-> "none", store |-> "ok",
                           req |-> J("none", << >>), status |-> 0, body |-> J("none", << >>)]]

NextWeb == HttpRequest \/ SettingsSavePost \/ SettingsSaveEnd

SpecWeb == InitWeb /\ [][NextWeb]_vars

\* C17, as stated: a POST /settings/save of frontend.ts whose body is not
\* valid JSON is answered 500, the process keeps serving, and the settings
\* file is left as it was.
C17_InvalidBodyIs500 ==
    (web.pc = "serving" /\ web.variant = "frontend"
        /\ web.last.method = "POST" /\ web.last.path = "/settings/save"
        /\ web.last.req.t = "garbage") =>
        /\ web.last.status = 500
        /\ web.up
        /\ web.file = web.before

\* The value a request body stands for: {} for an empty body.
BodyValue(body) == IF body.t = "empty" THEN J("object", << >>) ELSE JsonParse(body)

\* C18: in frontend.ts a completed save stores the value of its body and
\* nothing else, the stored settings are those of the last save that
\* completed, GET /settings/config returns the stored settings, and {} when
\* there is no file.
C18_SettingsReplacedWholesale ==
    (web.pc = "serving" /\ web.variant = "frontend") =>
        /\ web.saved.t /= "none" => loadLocalSettings(web.file) = web.saved
        /\ (web.last.method = "POST" /\ web.last.status = 200) =>
              /\ web.saved = BodyValue(web.last.req)
              /\ JsonParse(web.file) = BodyValue(web.last.req)
        /\ (web.last.method = "GET" /\ web.last.path = "/settings/config") =>
              /\ web.last.status = 200
              /\ web.saved.t /= "none" => JsonParse(web.last.body) = web.saved
              /\ web.file.t = "nofile" => JsonParse(web.last.body) = J("object", << >>)

\* Settings with the keys theme and refresh were stored, a save of a body
\* with the key theme alone completed, and the GET that followed returned
\* that body.
C18_Witness ==
    /\ web.pc = "serving" /\ web.variant = "frontend"
    /\ web.before = SettingsTexts.old
    /\ web.saved.t = "object" /\ Len(web.saved.v) = 1 /\ web.saved.v[1].k = "theme"
    /\ web.last.method = "GET" /\ web.last.path = "/settings/config"
    /\ JsonParse(web.last.body) = web.saved

\* C19, as stated: an OPTIONS request on any path is answered 200 with an
\* empty body.
C19_OptionsIs200 ==
    (web.pc = "serving" /\ web.last.method = "OPTIONS") =>
        web.last.status = 200 /\ web.last.body.t = "empty"

\* C20, as stated: when the store cannot be opened or queried, a GET of
\* /memory/stats, /memory/categories or /graph-data is answered 200, never
\* with a 5xx status.
C20_PanelsDegrade ==
    (web.pc = "serving" /\ web.last.method = "GET" /\ web.last.store = "fail"
        /\ web.last.path \in {"/memory/stats", "/memory/categories", "/graph-data"}) =>
        web.last.status = 200

----------------------------------------------------------------------------
(* The provider routes under the timers of the code.  Every companion      *)
(* fetch is aborted after 4 s (setTimeout(() => controller.abort(), 4000)) *)
(* and so returns; exec of /activity carries timeout: 12000 and so         *)
(* returns; exec of /sessions and of /tasks carries no timeout, and        *)
(* nothing makes it return.                                                *)

SpecFair ==
    /\ Init /\ [][Next]_vars
    /\ \A r \in Slots :
          /\ WF_vars(SessionsPluginOk(r) \/ SessionsPluginFail(r))
          /\ WF_vars(TasksPluginReturn(r))
          /\ WF_vars(ActivityPluginReturn(r))
          /\ WF_vars(ActivityCliReturn(r))

\* C21, as stated: every /sessions, /tasks and /activity request that was
\* received is eventually answered, whatever the companion service and the
\* CLI subprocess do.
C21_EventuallyAnswered ==
    \A r \in Slots : (req[r].pc \in {"plugin", "cli"}) ~> (req[r].pc = "done")

----------------------------------------------------------------------------
(* Further claims on /timeline-data (specification SpecTimeline).          *)

\* C22, as stated: a /timeline-data response holds at most `limit` events,
\* with the default of the server for a limit that is absent or not a
\* number and none for a limit of zero or less, and an event with
\* ts >= since that was left out is not newer than an event that was kept.
C22_AtMostLimitNewest ==
    (tl.pc = "done" /\ tl.status = 200) =>
        LET cap == IF tl.limit.nan
                   THEN IF tl.variant = "frontend" THEN TIMELINE_DEFAULT_LIMIT
                        ELSE TIMELINE_V2_DEFAULT_LIMIT
                   ELSE Max(tl.limit.n, 0)
            Kept(e) == \E i \in 1..Len(tl.body) : tl.body[i] = e
        IN  /\ Len(tl.body) <= cap
            /\ \A k \in 1..Len(tl.merged), i \in 1..Len(tl.body) :
                  (/\ ~Kept(tl.merged[k])
                   /\ ~DateParse(tl.since).nan
                   /\ NumGeq(DateParse(tl.merged[k].ts), DateParse(tl.since)))
                      => NumGeq(DateParse(tl.body[i].ts), DateParse(tl.merged[k].ts))

----------------------------------------------------------------------------
(* Further claims on the session cache (specification Spec).               *)

\* C23: in every interleaving of /sessions requests the slot is empty or
\* holds the value one request fetched together with the `now` of that
\* request, and every answer is the value the request fetched itself, a
\* value another request fetched and stored, or the empty list after both
\* sources failed.
C23_SlotIsOneFetch ==
    /\ \/ lastSessionsJson = JNull /\ lastSessionsAt = 0
       \/ \E r \in Slots :
             /\ req[r].route = "/sessions" /\ req[r].pc = "done" /\ req[r].fetched
             /\ req[r].body = lastSessionsJson /\ req[r].now = lastSessionsAt
    /\ \A r \in Slots :
          (req[r].route = "/sessions" /\ req[r].pc = "done") =>
              /\ req[r].status = 200
              /\ \/ req[r].fetched /\ ~req[r].hit
                 \/ /\ req[r].hit /\ ~req[r].fetched /\ req[r].calls = << >>
                    /\ \E q \in Slots \ {r} :
                          /\ req[q].route = "/sessions" /\ req[q].pc = "done"
                          /\ req[q].fetched /\ req[q].body = req[r].body
                 \/ /\ req[r].plugin = "fail" /\ req[r].cli = "fail"
                    /\ req[r].body = JList(<< >>)

\* Two /sessions requests raced: the second arrived within the 15 minutes
\* of the first, before the first had stored its value, and both fetched.
C23_Witness ==
    /\ req[1].route = "/sessions" /\ req[1].pc = "done" /\ req[1].fetched
    /\ req[2].route = "/sessions" /\ req[2].pc = "done" /\ req[2].fetched
    /\ Truthy(req[1].body)
    /\ req[2].now > req[1].now /\ req[2].now - req[1].now < SESSIONS_TTL_MS
    /\ lastSessionsAt = req[1].now

\* C29: the slot changes only in the step in which a /sessions request
\* ends with the value it fetched, to that value and the `now` of that
\* request; a /sessions request for which both sources fail leaves the slot
\* as it is and is answered with the empty list.
C29_SlotWrittenOnlyBySuccess ==
    [][/\ (lastSessionsJson' /= lastSessionsJson \/ lastSessionsAt' /= lastSessionsAt) =>
              \E r \in Slots :
                  /\ req[r].route = "/sessions" /\ req[r].pc \in {"plugin", "cli"}
                  /\ req'[r].pc = "done" /\ req'[r].fetched
                  /\ lastSessionsJson' = req'[r].body /\ lastSessionsAt' = req'[r].now
       /\ \A r \in Slots :
              (/\ req[r].pc /= "done" /\ req'[r].pc = "done" /\ req'[r].route = "/sessions"
               /\ req'[r].plugin = "fail" /\ req'[r].cli = "fail") =>
                  /\ lastSessionsJson' = lastSessionsJson /\ lastSessionsAt' = lastSessionsAt
                  /\ req'[r].status = 200 /\ req'[r].body = JList(<< >>)
      ]_vars

\* A /sessions request for which both sources failed has ended while the
\* slot holds the value of another request.
C29_Witness ==
    \E r, q \in Slots :
        /\ r /= q
        /\ req[r].route = "/sessions" /\ req[r].pc = "done"
        /\ req[r].plugin = "fail" /\ req[r].cli = "fail"
        /\ req[q].route = "/sessions" /\ req[q].pc = "done" /\ req[q].fetched
        /\ Truthy(lastSessionsJson)
        /\ lastSessionsJson = req[q].body /\ lastSessionsAt = req[q].now

\* C30, as stated: lastSessionsAt never decreases, and a request answered
\* from the cache arrives less than 15 minutes after the start of the
\* request whose value it is given.
C30_FreshnessMonotone ==
    [][/\ lastSessionsAt' >= lastSessionsAt
       /\ \A r \in Slots :
              (req[r].pc = "idle" /\ req'[r].pc = "done" /\ req'[r].hit) =>
                  req'[r].now - lastSessionsAt < SESSIONS_TTL_MS
      ]_vars

----------------------------------------------------------------------------
(* Further claims on the search adapter (specification SpecSearch).        *)

----------------------------------------------------------------------------
(* Event ids (specification SpecTimeline).                                 *)

\* C25, as stated: the ids of the events of /timeline-data are a function
\* of the upstream records, so the same request over the same upstream data
\* gives the same set of ids again; the id of an event made from a log line
\* is <time>-<discriminator>, the discriminator being the tool name or the
\* kind.
C25_StableIds ==
    (tl.pc = "done" /\ tl.status = 200) =>
        /\ {tl.merged[i].id : i \in 1..Len(tl.merged)}
              = {tl.refetched[i] : i \in 1..Len(tl.refetched)}
        /\ tl.variant = "frontend" =>
              \A i \in 1..Len(tl.merged) :
                  /\ tl.merged[i].id.t = tl.merged[i].ts
                  /\ tl.merged[i].kind /= "tool" => tl.merged[i].id.d = tl.merged[i].kind

----------------------------------------------------------------------------
(* The timeline page of frontend.ts: the cache the page script keeps in    *)
(* localStorage.  tl.events is cache.events, tl.fetched tells lastFetch >  *)
(* 0, tl.outcome what the last loadTimeline did and tl.response the events *)
(* the server sent it.                                                     *)

\* maxEvents of the page script, 500 there.
MaxCachedEvents == 2

\* The events of one server response.
MaxResponse == 2

\* loadTimeline(forceRefresh).  A fresh cache is shown as it is unless the
\* refresh is forced; `expired` tells now - cache.lastFetch >= CACHE_TTL_MS.
\* Otherwise /timeline-data is fetched: when the fetch fails, the status is
\* not ok or the body is not a list, the catch shows the cache; else the
\* cached and the new events are put in a Map by id (an event without id is
\* left out, a later event replaces an earlier one of the same id in its
\* place), sorted by new Date(b.ts) - new Date(a.ts), cut to maxEvents and
\* stored.
loadTimeline ==
    /\ tl.pc = "page"
    /\ \E forceRefresh \in BOOLEAN, expired \in BOOLEAN, answer \in {"events", "fail", "object"} :
          LET summary == Summary("", "Nightly sync", 12)
              sent == {Event(PlainId("a"), Iso(2, 10, 0, "Z"), "cron", summary, "info"),
                       Event(PlainId("a"), Iso(2, 12, 0, "Z"), "cron", summary, "warn"),
                       Event(PlainId("b"), Iso(2, 11, 0, "Z"), "cron", summary, "info"),
                       Event(PlainId("c"), TimeMissing, "cron", summary, "info"),
                       Event(PlainId("d"), Iso(2, 9, 0, "Z"), "cron", summary, "info"),
                       Event(PlainId(""), Iso(2, 13, 0, "Z"), "cron", summary, "info")}
          IN  IF ~forceRefresh /\ tl.fetched /\ ~expired
              THEN tl' = [tl EXCEPT !.outcome = "cache", !.response = << >>]
              ELSE IF answer /= "events"
              THEN tl' = [tl EXCEPT !.outcome = "failed", !.response = << >>]
              ELSE \E newEvents \in SeqsUpTo(sent, MaxResponse) :
                      LET all == tl.events \o newEvents
                          First(i) == /\ all[i].id.d /= ""
                                      /\ \A j \in 1..(i - 1) : all[j].id /= all[i].id
                          Latest(i) == CHOOSE j \in i..Len(all) :
                                          /\ all[j].id = all[i].id
                                          /\ \A k \in (j + 1)..Len(all) : all[k].id /= all[i].id
                          keys == SelectSeq([i \in 1..Len(all) |-> i], First)
                          values == [n \in 1..Len(keys) |-> all[Latest(keys[n])]]
                      IN  \E allEvents \in SortNewestFirst(values) :
                             tl' = [tl EXCEPT !.outcome = "updated", !.fetched = TRUE,
                                              !.response = newEvents,
                                              !.events = SliceTo(allEvents, Num(MaxCachedEvents))]
    /\ UNCHANGED <<clock, lastSessionsJson, lastSessionsAt, req, sr, sn, call, web>>

InitPage ==
    /\ clock = BootClockMs
    /\ lastSessionsJson = JNull
    /\ lastSessionsAt = 0
    /\ req = [r \in Slots |-> IdleRequest]
    /\ tl = [pc |-> "page", events |-> << >>, fetched |-> FALSE, outcome |-> "none",
             response |-> << >>]
    /\ sr = Unused /\ sn = Unused /\ call = Unused /\ web = Unused

NextPage == loadTimeline

SpecPage == InitPage /\ [][NextPage]_vars

\* C26, as stated: the cached list has pairwise distinct ids, at most
\* maxEvents entries and is in non-increasing order of ts; after a
\* successful refresh an id that was in the cache and is in the response
\* holds the event the server sent last for it, if it is still cached; a
\* failed refresh leaves the cached list as it was.
C26_ClientCache ==
    /\ [](tl.pc = "page" =>
            /\ \A i, j \in 1..Len(tl.events) : tl.events[i].id = tl.events[j].id => i = j
            /\ Len(tl.events) <= MaxCachedEvents
            /\ \A i, j \in 1..Len(tl.events) :
                  i < j => NumGeq(DateParse(tl.events[i].ts), DateParse(tl.events[j].ts)))
    /\ [][/\ tl'.outcome = "updated" =>
                \A i \in 1..Len(tl.events), k \in 1..Len(tl'.response), n \in 1..Len(tl'.events) :
                    (/\ tl.events[i].id = tl'.response[k].id
                     /\ tl'.events[n].id = tl.events[i].id
                     /\ \A m \in (k + 1)..Len(tl'.response) :
                           tl'.response[m].id /= tl'.response[k].id)
                        => tl'.events[n] = tl'.response[k]
          /\ tl'.outcome \in {"failed", "cache"} => tl'.events = tl.events
         ]_vars

----------------------------------------------------------------------------
(* The classifiers and the task mappings against each other               *)
(* (specification SpecCalls).                                              *)

\* What a classifier decided for a line: nothing, or a kind and a summary.
Decision(pushed) ==
    IF pushed = << >> THEN << >>
    ELSE << [kind |-> pushed[1].kind, summary |-> pushed[1].summary] >>

\* C27, as stated: for every line of a batch, what the loop that ran
\* decided is what the loops of /activity, of /timeline-data and of
\* clawscope_get_activity decide for the line.
C27_OneClassifier ==
    (call.pc = "done" /\ call.op \in {"/timeline-data", "/activity"}) =>
        \A i \in 1..Len(call.arg.lines) :
            LET line == call.arg.lines[i]
                sinceTs == DateParse(EffectiveSince(TimeMissing))
            IN  /\ Decision(call.pushed[i]) = Decision(ActivityClassify(line))
                /\ Decision(call.pushed[i]) = Decision(TimelineClassify(line, sinceTs))
                /\ Decision(call.pushed[i]) = Decision(McpClassify(line))

\* C28, as stated: for every schedule descriptor the schedule string of the
\* formatter that ran is the string of the companion path and of the
\* CLI-fallback path, and the items the two paths build for a job of this
\* schedule have the same fields.
C28_UniformTaskShape ==
    (call.pc = "done" /\ call.op \in {"formatSchedule", "cli"}) =>
        LET job == Job("job", call.arg.schedule)
        IN  /\ call.out = PluginTaskItem(job).schedule
            /\ call.out = CliTaskItem(job).schedule
            /\ PluginTaskItem(job).fields = CliTaskItem(job).fields

====
